---- MODULE Spec2Model ----
(***************************************************************************)
(* Model of linear_jira_sync.py: the migration pipeline of main() (epics,  *)
(* the three child sub-phases, backlog, attachments, activity comments,    *)
(* relation links) with its mapping file, and the self-healing retry loop  *)
(* of _try_create_issue.                                                   *)
(*                                                                         *)
(*   Spec       the pipeline, run repeatedly against one destination       *)
(*   SpecRetry  one invocation of _try_create_issue                        *)
(*   SpecSave   one save_mapping, a crash at any of its steps, and the     *)
(*              load_mapping of the next run                               *)
(*   SpecDesc   the description step of one created entity: its images,    *)
(*              the document built from the body, and the update           *)
(*   SpecFn     one call of resolve_due_date, parse_selection,             *)
(*              build_activity_comment_md, apply_selection, the child      *)
(*              sub-phase filters or the media lookup of one attachment,   *)
(*              on an input of a bounded set                               *)
(*   SpecMd     markdown_to_adf on a text of a few lines, one iteration    *)
(*              of its loop at a time                                      *)
(***************************************************************************)
EXTENDS Integers, Sequences, FiniteSets, TLC

VARIABLES
    \* ---- _try_create_issue ----
    heap,        \* Python objects: object id -> payload dict
    fields,      \* the reference the caller passed in
    current,     \* the reference the loop works on
    rpc,         \* "start" | "call" | "done"
    pass,        \* loop variable _pass
    last_exc,    \* last_exc (None before the first failure)
    sent,        \* payloads handed to jira.create_issue, in order
    got,         \* responses of jira.create_issue, in order
    outcome,     \* "none" | "returned" | "raised"
    raised,      \* the exception that left the function
    fields0,     \* the caller's payload as it was at the call
    looked,      \* name_to_id as each attempt's handler built it (empty: not built)
    \* ---- the pipeline: process state of one run of main() ----
    run,          \* number of the current run of the script
    auth,         \* how the credential verification of this run ended
    ph,           \* phase main() is in; "done" at the final report, "aborted" after an
                  \* interrupt, "fatal" after sys.exit(1)
    ix,           \* index of the current item in the phase's list
    st,           \* step inside the item: "check" | "create" | "persist" | "desc"
    cpass,        \* _pass of the _try_create_issue call in progress
    mapping,      \* the in-memory mapping dict
    epic_map,     \* epic_map returned by phase_create_epics
    linked_pairs, \* linked_pairs of phase_create_links
    report,       \* the report dict (failure lists)
    tally,        \* created / skipped / failed of _run_issue_phase, per child sub-phase
    \* ---- the world outside the process ----
    disk,         \* content of MAPPING_FILE
    alive,        \* destination keys that resolve to a live entity
    nextKey,      \* the key the destination gives to its next new entity
    rel12,        \* source data: the type of the relation record I1 holds towards I2
    \* ---- history ----
    inflight,     \* key of a created entity whose mapping entry is not saved yet (0: none)
    created,      \* <<source key, destination key, run>> of every successful create
    saved,        \* destination keys that have been written to MAPPING_FILE
    calls,        \* create calls issued in this run
    clean,        \* no creation has failed in this run
    prev,         \* how the previous run ended, and the mapping file it left
    stale0,       \* source keys whose mapped entity was gone when this run started
    wrong_probes, \* probes of a live entity that ended in an error
    deletes,      \* entities deleted out-of-band
    failures,     \* destination calls that failed an item for good
    interrupts,   \* interrupts received
    log,          \* late-phase calls that succeeded, and description updates attempted
    confirmed,    \* <<project, key>>: epics created, or probed alive, in this run
    link_calls,   \* arguments of the jira.create_issue_link calls of this run, in order
    moved,        \* keys handed to jira.move_to_backlog in this run
    issued,       \* the update_issue and add_comment calls of this run, in order
    \* ---- save_mapping / load_mapping on the file system ----
    fs,           \* path -> content of MAPPING_FILE and MAPPING_FILE + ".tmp"
    save_pc,      \* "open" | "dump" | "replace" | "done" | "crashed_" + the step it hit
    table,        \* the dict handed to save_mapping
    before,       \* what load_mapping returned before the save
    loaded,       \* what load_mapping returned to the next run, once it has run
    \* ---- upload_images_and_build_description ----
    description_md, \* the Markdown body, as the pieces the regular expressions cut it into
    media_map,    \* media_map: image URL -> the Jira-hosted copy
    media_log,    \* how the download / upload of each image of the body ended, in order
    desc_adf,     \* the document returned
    desc_pc,      \* "images" | "built" | "raised"
    \* ---- one call of a pure function ----
    fn,           \* the function called
    args,         \* its arguments
    ret           \* what it returned or raised, once it has run

rvars == <<heap, fields, current, rpc, pass, last_exc, sent, got, outcome, raised, fields0,
           looked>>

procvars == <<run, auth, ph, ix, st, cpass, mapping, epic_map, linked_pairs, report, tally>>

worldvars == <<disk, alive, nextKey, rel12>>

histvars == <<inflight, created, saved, calls, clean, prev, stale0, wrong_probes, deletes,
              failures, interrupts, log, confirmed, link_calls, moved, issued>>

pvars == <<procvars, worldvars, histvars>>

fvars == <<fn, args, ret>>

\* the variables of the other specifications
xvars == <<fs, save_pc, table, before, loaded,
           description_md, media_map, media_log, desc_adf, desc_pc, fvars>>

\* everything but the pipeline's variables
ovars == <<rvars, xvars>>

vars == <<rvars, pvars, xvars>>

None == "None"

(***************************************************************************)
(* Payload dictionaries                                                    *)
(***************************************************************************)
CF == "customfield_10014"

FieldIds == {"summary", "reporter", "parent", CF, "labels", "customfield_10020"}

\* the value a caller-built payload holds under each field id
CallerValue(f) ==
    CASE f = "summary"  -> "X"
      [] f = "reporter" -> [accountId |-> "r1"]
      [] f = "parent"   -> [key |-> "EPIC-1"]
      [] f = CF         -> "EPIC-2"
      [] f = "labels"   -> "wrong-value"
      [] f = "customfield_10020" -> "3.0"

Payloads == { [f \in d \cup {"summary"} |-> CallerValue(f)] : d \in SUBSET FieldIds }

\* dict.pop(f, None)
Pop(p, f) == [x \in DOMAIN p \ {f} |-> p[x]]

\* dict[f] = v
Put(p, f, v) == [x \in DOMAIN p \cup {f} |-> IF x = f THEN v ELSE p[x]]

(***************************************************************************)
(* Error messages of jira.create_issue, by the substrings the loop tests   *)
(***************************************************************************)
\*   arr      : "was not an array" in msg
\*   names    : the names found by  "([^"]+)":\s*"data was not an array"
\*   reporter : '"reporter"' in msg
\*   hier     : "parent" in msg.lower() or "customfield_10014" in msg.lower()
Msg(a, n, r, h) == [arr |-> a, names |-> n, reporter |-> r, hier |-> h]

ErrorMsgs ==
    { Msg(TRUE,  {"Labels"},           FALSE, FALSE),
      Msg(TRUE,  {},                   FALSE, FALSE),
      Msg(TRUE,  {"Sprint"},           FALSE, FALSE),
      Msg(TRUE,  {"Labels", "Sprint"}, TRUE,  FALSE),
      Msg(FALSE, {},                   TRUE,  FALSE),
      Msg(FALSE, {},                   FALSE, TRUE),
      Msg(FALSE, {},                   TRUE,  TRUE),
      Msg(FALSE, {},                   FALSE, FALSE) }

\* str.lower() on the field names that occur
Lower(s) ==
    CASE s = "Labels" -> "labels"
      [] s = "Sprint" -> "sprint"
      [] OTHER        -> s

\* jira.get_fields(): the destination's field metadata (id, name)
FieldMeta == { [id |-> "labels", name |-> "Labels"],
               [id |-> "customfield_10020", name |-> "Sprint"] }

\* name_to_id built from get_fields(); empty when get_fields raised
name_to_id(gf_ok) ==
    IF gf_ok THEN { <<Lower(f.name), f.id>> : f \in FieldMeta } ELSE {}

\* the handler reaches jira.get_fields(): array error with at least one name
GetFieldsCalled(msg) == msg.arr /\ msg.names # {}

\* which branch of the except block handles msg
Branch(msg) ==
    IF msg.arr THEN "array"
    ELSE IF msg.reporter THEN "reporter"
    ELSE IF msg.hier THEN "hierarchy"
    ELSE "unrecoverable"

\* the field ids popped by the array branch
ArrayFixed(cur, msg, gf_ok) ==
    { fid \in DOMAIN cur :
        \E fname \in msg.names : <<Lower(fname), fid>> \in name_to_id(gf_ok) }

RepairArray_one(cur, msg, gf_ok) ==
    LET fx == ArrayFixed(cur, msg, gf_ok)
    IN  IF fx = {} THEN cur
        ELSE [x \in DOMAIN cur \ {CHOOSE f \in fx : TRUE} |-> cur[x]]

RepairArray(cur, msg, gf_ok) ==
    [x \in DOMAIN cur \ ArrayFixed(cur, msg, gf_ok) |-> cur[x]]

RepairReporter_noop(cur) == cur

RepairReporter(cur) == Pop(cur, "reporter")

RepairHierarchy_keep(cur) ==
    IF "parent" \in DOMAIN cur /\ CF \notin DOMAIN cur
    THEN Put(cur, CF, cur["parent"].key)
    ELSE IF CF \in DOMAIN cur THEN Pop(cur, CF) ELSE cur

RepairHierarchy_nokey(cur) ==
    LET c1 == Pop(cur, "parent")
    IN  IF "parent" \in DOMAIN cur /\ CF \notin DOMAIN c1
        THEN Put(c1, CF, "")
        ELSE IF CF \in DOMAIN c1 THEN Pop(c1, CF) ELSE c1

RepairHierarchy_back(cur) ==
    LET c1 == Pop(cur, "parent")
    IN  IF "parent" \in DOMAIN cur /\ CF \notin DOMAIN c1
        THEN Put(c1, CF, cur["parent"].key)
        ELSE IF CF \in DOMAIN c1
             THEN Put(Pop(c1, CF), "parent", [key |-> c1[CF]])
             ELSE c1

RepairHierarchy(cur) ==
    LET c1 == Pop(cur, "parent")
    IN  IF "parent" \in DOMAIN cur /\ CF \notin DOMAIN c1
        THEN Put(c1, CF, cur["parent"].key)
        ELSE IF CF \in DOMAIN c1 THEN Pop(c1, CF) ELSE c1

HandleError_swallow(cur, msg, gf_ok) ==
    CASE Branch(msg) = "array" ->
            IF msg.names = {} \/ ArrayFixed(cur, msg, gf_ok) = {}
            THEN [next |-> "raise",    cur |-> cur]
            ELSE [next |-> "continue", cur |-> RepairArray(cur, msg, gf_ok)]
      [] Branch(msg) = "reporter" ->
            [next |-> "continue", cur |-> RepairReporter(cur)]
      [] Branch(msg) = "hierarchy" ->
            [next |-> "continue", cur |-> RepairHierarchy(cur)]
      [] OTHER ->
            [next |-> "continue", cur |-> cur]

\* the except block: what happens to `current`, and whether the loop goes on
HandleError(cur, msg, gf_ok) ==
    CASE Branch(msg) = "array" ->
            IF msg.names = {} \/ ArrayFixed(cur, msg, gf_ok) = {}
            THEN [next |-> "raise",    cur |-> cur]
            ELSE [next |-> "continue", cur |-> RepairArray(cur, msg, gf_ok)]
      [] Branch(msg) = "reporter" ->
            [next |-> "continue", cur |-> RepairReporter(cur)]
      [] Branch(msg) = "hierarchy" ->
            [next |-> "continue", cur |-> RepairHierarchy(cur)]
      [] OTHER ->
            [next |-> "raise", cur |-> cur]

MaxAttempts == 4

\* what jira.create_issue answered on an attempt: a result or an exception
Result(n) == [ok |-> TRUE, msg |-> Msg(FALSE, {}, FALSE, FALSE), attempt |-> n]

Exc(msg, n) == [ok |-> FALSE, msg |-> msg, attempt |-> n]

\* the value of last_exc before any failure
NoExc == [ok |-> TRUE, msg |-> Msg(FALSE, {}, FALSE, FALSE), attempt |-> 0]

LoopExhausted_five(p) == p + 1 >= MaxAttempts + 1

\* for _pass in range(4): the body just run was the last one
LoopExhausted(p) == p + 1 >= MaxAttempts

dict_copy_alias(h, ref) == [heap |-> h, ref |-> ref]

\* current = dict(fields): a new object holding the same items
dict_copy(h, ref) == [heap |-> [h EXCEPT !["o2"] = h[ref]], ref |-> "o2"]


(***************************************************************************)
(* Source data: one team with a resolved destination project               *)
(***************************************************************************)
LABEL_ISSUE_TYPE_MAP == { <<"Bug", "Bug">>, <<"Feature Request", "Story">> }

DEFAULT_ISSUE_TYPE == "Story"

\* the team's Linear projects and issues, in fetch order
Projects == <<"P1">>

Issues == <<"I1", "I2">>

\* the reciprocal of a relation record, as Linear holds it on the other issue
Reciprocal(t) == IF t = "blocks" THEN "blocked_by" ELSE "blocks"

Issue(i) ==
    CASE i = "I1" -> [labels |-> <<"Bug", "Feature Request">>, issueType |-> "",
                      project |-> "P1", attachments |-> <<"a1">>, activity |-> TRUE,
                      relations |-> <<[type |-> rel12, related |-> "I2"]>>]
      [] i = "I2" -> [labels |-> <<>>, issueType |-> "Bug",
                      project |-> None, attachments |-> <<>>, activity |-> FALSE,
                      relations |-> <<[type |-> Reciprocal(rel12), related |-> "I1"]>>]

\* f"__epic__{pid}"
mapping_key(pid) == CASE pid = "P1" -> "__epic__P1"

SourceKeys == {mapping_key(Projects[n]) : n \in 1..Len(Projects)}
                \cup {Issues[n] : n \in 1..Len(Issues)}

MappedType(name) == (CHOOSE e \in LABEL_ISSUE_TYPE_MAP : e[1] = name)[2]

InTypeMap(name) == \E e \in LABEL_ISSUE_TYPE_MAP : e[1] = name

\* the first label found in the table decides, then the native type
determine_issue_type(issue) ==
    LET ls  == issue.labels
        hit == {n \in 1..Len(ls) : InTypeMap(ls[n])}
    IN  IF hit # {}
        THEN MappedType(ls[CHOOSE n \in hit : \A m \in hit : n <= m])
        ELSE IF InTypeMap(issue.issueType)
             THEN MappedType(issue.issueType)
             ELSE DEFAULT_ISSUE_TYPE

HasLabel(issue, names) == \E n \in 1..Len(issue.labels) : issue.labels[n] \in names

selected_by_label_only(p, issue) ==
    CASE p = "bugs"     -> HasLabel(issue, {"Bug"}) /\ ~HasLabel(issue, {"Feature Request"})
      [] p = "features" -> HasLabel(issue, {"Feature Request"})
      [] p = "stories"  -> determine_issue_type(issue) = "Story"
                              /\ ~HasLabel(issue, {"Bug", "Feature Request"})

\* the filters of phase_create_bugs / _feature_requests / _stories
selected_by(p, issue) ==
    CASE p = "bugs"     -> determine_issue_type(issue) = "Bug"
      [] p = "features" -> HasLabel(issue, {"Feature Request"})
      [] p = "stories"  -> ~HasLabel(issue, {"Bug", "Feature Request"})

IsBug(i) == selected_by("bugs", Issue(i))

IsFeatureRequest(i) == selected_by("features", Issue(i))

IsStory(i) == selected_by("stories", Issue(i))

\* _nodes(issue.get("attachments")) / _nodes(issue.get("relations"))
Nodes(i, part) == IF part = "attachments" THEN Issue(i).attachments ELSE Issue(i).relations

RECURSIVE Flatten(_, _)
\* [(i, x) for i in issues for x in _nodes(i.get(part))]: the order of the nested loops
Flatten(is, part) ==
    IF is = <<>> THEN <<>>
    ELSE [n \in 1..Len(Nodes(Head(is), part)) |->
             [issue |-> Head(is), of |-> Nodes(Head(is), part)[n]]]
           \o Flatten(Tail(is), part)

PhaseOrder_children_first == <<"bugs", "epics", "features", "stories",
                              "backlog", "attach", "comments", "links">>

PhaseOrder == <<"epics", "bugs", "features", "stories",
                "backlog", "attach", "comments", "links">>

\* the list each phase iterates over
Items(p) ==
    CASE p = "epics"    -> Projects
      [] p = "bugs"     -> SelectSeq(Issues, IsBug)
      [] p = "features" -> SelectSeq(Issues, IsFeatureRequest)
      [] p = "stories"  -> SelectSeq(Issues, IsStory)
      [] p = "backlog"  -> <<"batch">>
      [] p = "attach"   -> Flatten(Issues, "attachments")
      [] p = "comments" -> Issues
      [] p = "links"    -> Flatten(Issues, "relations")
      [] OTHER          -> <<>>

PhaseIndex(p) == CHOOSE n \in 1..Len(PhaseOrder) : PhaseOrder[n] = p

RECURSIVE FirstPhaseFrom(_)
\* the first phase from position n on that has something to iterate over
FirstPhaseFrom(n) ==
    IF n > Len(PhaseOrder) THEN "done"
    ELSE IF Items(PhaseOrder[n]) # <<>> THEN PhaseOrder[n]
    ELSE FirstPhaseFrom(n + 1)

CreationPhases == {"epics", "bugs", "features", "stories"}

RELATION_TYPE_MAP(t) ==
    CASE t = "blocks"       -> "Blocks"
      [] t = "blocked_by"   -> "Blocks"
      [] t = "duplicate_of" -> "Duplicates"
      [] t = "duplicate_by" -> "Duplicates"
      [] t = "related_to"   -> "Relates"
      [] t = "relates_to"   -> "Relates"
      [] OTHER              -> "Relates"

Range(f) == {f[x] : x \in DOMAIN f}

(***************************************************************************)
(* Mapping file, reachability probe                                        *)
(***************************************************************************)
MaxRuns == 2
MaxKeys == 6
MaxWrongProbes == 1
MaxDeletes == 1
MaxFailures == 1
MaxInterrupts == 1

EmptyDict == <<>>

load_mapping_fresh(file) == EmptyDict

\* load_mapping(): the table in the file
load_mapping(file) == file

save_mapping_skipped(m) == disk

\* save_mapping(mapping): the file holds the full table after os.replace
save_mapping(m) == m

\* JiraClient._request for GET /issue/{key}: the answers the probe can get
ErrorResponses == {"timeout", "connection", "403"}

ProbeResponses(k) ==
    (IF k \in alive THEN {"200"} ELSE {"404"}) \cup ErrorResponses

issue_exists_always(resp) == TRUE

\* JiraClient.issue_exists: True on 200, False on 404 or any error
issue_exists(resp) == resp = "200"

NoReport == [failed_issues |-> <<>>, failed_attachments |-> <<>>, failed_comments |-> <<>>]

ChildPhases == {"bugs", "features", "stories"}

\* created = skipped = failed = 0
NoTally == [p \in ChildPhases |-> [created |-> 0, skipped |-> 0, failed |-> 0]]

NoPrev == [clean |-> FALSE, disk |-> EmptyDict]

\* the pipeline's variables while only _try_create_issue is looked at
PipelineIdle ==
    /\ run = 1 /\ auth = "ok" /\ ph = "done" /\ ix = 1 /\ st = "check" /\ cpass = 0
    /\ mapping = EmptyDict /\ epic_map = EmptyDict /\ linked_pairs = {}
    /\ report = NoReport /\ tally = NoTally
    /\ disk = EmptyDict /\ alive = {} /\ nextKey = 1 /\ rel12 = "blocks"
    /\ inflight = 0 /\ created = {} /\ saved = {} /\ calls = 0 /\ clean = TRUE
    /\ prev = NoPrev /\ stale0 = {} /\ wrong_probes = 0 /\ deletes = 0
    /\ failures = 0 /\ interrupts = 0 /\ log = {}
    /\ confirmed = {} /\ link_calls = <<>> /\ moved = {} /\ issued = <<>>

NoFile == [exists |-> FALSE, text |-> <<>>]

File(text) == [exists |-> TRUE, text |-> text]

NotLoaded == [done |-> FALSE, value |-> EmptyDict]

\* the file system's variables while save_mapping is not looked at
SaveIdle ==
    /\ fs = [f \in {"map", "tmp"} |-> NoFile] /\ save_pc = "done"
    /\ table = EmptyDict /\ before = EmptyDict /\ loaded = NotLoaded

\* {"version": 1, "type": "doc", "content": [...]}
Doc(content) == [type |-> "doc", content |-> content]

\* the description step's variables while it is not looked at
\* a call that has not run yet, one that returned, one that raised ValueError
Pending == [done |-> FALSE, raised |-> FALSE, value |-> None]

Returned(v) == [done |-> TRUE, raised |-> FALSE, value |-> v]

RaisedValueError == [done |-> TRUE, raised |-> TRUE, value |-> "ValueError"]

FnIdle == fn = "none" /\ args = None /\ ret = Pending

DescIdle ==
    /\ description_md = <<>> /\ media_map = EmptyDict /\ media_log = <<>>
    /\ desc_adf = Doc(<<>>) /\ desc_pc = "built"

(***************************************************************************)
(* _try_create_issue                                                       *)
(***************************************************************************)
InitRetry ==
    /\ fields0 \in Payloads
    /\ heap = [o \in {"o1", "o2"} |-> IF o = "o1" THEN fields0 ELSE <<>>]
    /\ fields = "o1"
    /\ current = None
    /\ rpc = "start"
    /\ pass = 0
    /\ last_exc = NoExc
    /\ sent = <<>>
    /\ got = <<>>
    /\ outcome = "none"
    /\ raised = NoExc
    /\ looked = <<>>
    /\ PipelineIdle
    /\ SaveIdle
    /\ DescIdle
    /\ FnIdle

TryCreateStart ==
    /\ rpc = "start"
    /\ LET c == dict_copy(heap, fields)
       IN  /\ heap' = c.heap
           /\ current' = c.ref
    /\ rpc' = "call"
    /\ UNCHANGED <<fields, pass, last_exc, sent, got, outcome, raised, fields0, looked>>
    /\ UNCHANGED <<pvars, xvars>>

\* jira.create_issue(current) answers with a result
CreateReturns ==
    /\ rpc = "call"
    /\ sent' = Append(sent, heap[current])
    /\ got' = Append(got, Result(pass + 1))
    /\ looked' = Append(looked, {})
    /\ outcome' = "returned"
    /\ rpc' = "done"
    /\ UNCHANGED <<heap, fields, current, pass, last_exc, raised, fields0>>
    /\ UNCHANGED <<pvars, xvars>>

\* jira.create_issue(current) raises msg; the except block runs
CreateRaises(msg, gf_ok) ==
    /\ rpc = "call"
    /\ LET exc == Exc(msg, pass + 1)
           h   == HandleError(heap[current], msg, gf_ok)
       IN  /\ sent' = Append(sent, heap[current])
           /\ got' = Append(got, exc)
           /\ looked' = Append(looked, IF GetFieldsCalled(msg) THEN name_to_id(gf_ok) ELSE {})
           /\ last_exc' = exc
           /\ heap' = [heap EXCEPT ![current] = h.cur]
           /\ IF h.next = "raise" \/ LoopExhausted(pass)
              THEN /\ outcome' = "raised"
                   /\ raised' = exc
                   /\ rpc' = "done"
                   /\ pass' = pass
              ELSE /\ pass' = pass + 1
                   /\ UNCHANGED <<outcome, raised, rpc>>
    /\ UNCHANGED <<fields, current, fields0>>
    /\ UNCHANGED <<pvars, xvars>>

CreateRaisesArray ==
    \E msg \in ErrorMsgs, gf_ok \in BOOLEAN :
        Branch(msg) = "array" /\ CreateRaises(msg, gf_ok)

CreateRaisesReporter ==
    \E msg \in ErrorMsgs : Branch(msg) = "reporter" /\ CreateRaises(msg, TRUE)

CreateRaisesHierarchy ==
    \E msg \in ErrorMsgs : Branch(msg) = "hierarchy" /\ CreateRaises(msg, TRUE)

CreateRaisesUnrecoverable ==
    \E msg \in ErrorMsgs : Branch(msg) = "unrecoverable" /\ CreateRaises(msg, TRUE)

NextRetry ==
    \/ TryCreateStart
    \/ CreateReturns
    \/ CreateRaisesArray
    \/ CreateRaisesReporter
    \/ CreateRaisesHierarchy
    \/ CreateRaisesUnrecoverable

SpecRetry == InitRetry /\ [][NextRetry]_vars

(***************************************************************************)
(* The pipeline of main(): creation phases                                 *)
(***************************************************************************)
RetryIdle ==
    /\ fields0 = [f \in {"summary"} |-> CallerValue(f)]
    /\ heap = [o \in {"o1", "o2"} |-> fields0]
    /\ fields = "o1" /\ current = "o2" /\ rpc = "done" /\ pass = 0
    /\ last_exc = NoExc /\ sent = <<>> /\ got = <<>>
    /\ outcome = "none" /\ raised = NoExc /\ looked = <<>>

\* mapping = load_mapping() on a first run, with no mapping file yet; the
\* relation between I1 and I2 is recorded on both, from either side
Init ==
    /\ RetryIdle
    /\ SaveIdle
    /\ DescIdle
    /\ FnIdle
    /\ rel12 \in {"blocks", "blocked_by"}
    /\ run = 1 /\ auth = "ok"
    /\ ph = FirstPhaseFrom(1) /\ ix = 1 /\ st = "check" /\ cpass = 0
    /\ disk = EmptyDict
    /\ mapping = load_mapping(disk)
    /\ epic_map = EmptyDict /\ linked_pairs = {} /\ report = NoReport /\ tally = NoTally
    /\ alive = {} /\ nextKey = 1
    /\ inflight = 0 /\ created = {} /\ saved = {} /\ calls = 0 /\ clean = TRUE
    /\ prev = NoPrev /\ stale0 = {} /\ wrong_probes = 0 /\ deletes = 0
    /\ failures = 0 /\ interrupts = 0 /\ log = {}
    /\ confirmed = {} /\ link_calls = <<>> /\ moved = {} /\ issued = <<>>

Goto(p, n) == ph' = p /\ ix' = n /\ st' = "check" /\ cpass' = 0

\* the loop goes to its next item, or main() to its next phase
Advance ==
    IF ix < Len(Items(ph)) THEN Goto(ph, ix + 1)
    ELSE Goto(FirstPhaseFrom(PhaseIndex(ph) + 1), 1)

InCreation == ph \in CreationPhases /\ ix <= Len(Items(ph))

item == Items(ph)[ix]

is_epic == ph = "epics"

\* the key of the item in the mapping: mapping_key for a project, linear_id for an issue
mkey == IF is_epic THEN mapping_key(item) ELSE item

\* the create call goes through _try_create_issue: _create_one_issue does,
\* phase_create_epics calls jira.create_issue itself
wrapped == ~is_epic

\* an error of the create call, by what the handler of _try_create_issue does
\* with it: repair the payload and go on, or re-raise
ErrorShapes == {"repairable", "unrepairable"}

\* the entry appended to report["failed_issues"]
FailedIssue(what, reason) == [id |-> mkey, what |-> what, reason |-> reason]

Count_nofail(t, p, what) ==
    IF what = "failed" THEN t ELSE [t EXCEPT ![p][what] = @ + 1]

\* created += c; skipped += s; failed += f
Count(t, p, what) == [t EXCEPT ![p][what] = @ + 1]

\* the counters once the current item has ended as `what`
\* (phase_create_epics keeps no counters)
Tallied(what) == IF is_epic THEN tally ELSE Count(tally, ph, what)

\* no destination key (None)
NoKey == 0

\* epic_key = epic_map.get(proj["id"]) if proj else None
epic_key(i) ==
    LET proj == Issue(i).project
    IN  IF proj # None /\ proj \in DOMAIN epic_map THEN epic_map[proj] ELSE NoKey

build_jira_fields_with_body(i) ==
    IF epic_key(i) # NoKey
    THEN [summary |-> i, parent |-> [key |-> epic_key(i)], description |-> i]
    ELSE [summary |-> i, description |-> i]

\* build_jira_fields(issue, ..., epic_key, ..., is_epic=False): the summary and
\* the parent link; no description is set
build_jira_fields(i) ==
    IF epic_key(i) # NoKey
    THEN [summary |-> i, parent |-> [key |-> epic_key(i)]]
    ELSE [summary |-> i]

\* build_jira_fields(synthetic, ..., epic_key=None, ..., is_epic=True)
epic_fields(p) == [summary |-> p]

\* the payload handed to the create call of the current item
create_fields == IF is_epic THEN epic_fields(item) ELSE build_jira_fields(item)

\* a destination call fails an item for good
Fails == failures < MaxFailures /\ failures' = failures + 1

\* _check_existing_mapping: key not in mapping
CheckNotMapped ==
    /\ InCreation /\ st = "check"
    /\ mkey \notin DOMAIN mapping
    /\ st' = "create"
    /\ UNCHANGED <<run, auth, ph, ix, cpass, mapping, epic_map, linked_pairs, report, tally>>
    /\ UNCHANGED <<worldvars, histvars, ovars>>

\* _check_existing_mapping: the probe says the entity exists; the item is skipped
CheckSkip ==
    /\ InCreation /\ st = "check"
    /\ mkey \in DOMAIN mapping
    /\ \E resp \in ProbeResponses(mapping[mkey]) :
          /\ issue_exists(resp)
          /\ epic_map' = IF is_epic THEN Put(epic_map, item, mapping[mkey]) ELSE epic_map
          /\ confirmed' = IF is_epic /\ resp = "200"
                          THEN confirmed \cup {<<item, mapping[mkey]>>}
                          ELSE confirmed
    /\ tally' = Tallied("skipped")
    /\ Advance
    /\ UNCHANGED <<run, auth, mapping, linked_pairs, report>>
    /\ UNCHANGED <<inflight, created, saved, calls, clean, prev, stale0, wrong_probes, deletes,
                   failures, interrupts, log, link_calls, moved, issued>>
    /\ UNCHANGED <<worldvars, ovars>>

\* _check_existing_mapping: the probe says the entity is gone; the entry is
\* deleted, the file rewritten, and the caller goes on to create
CheckStale ==
    /\ InCreation /\ st = "check"
    /\ mkey \in DOMAIN mapping
    /\ \E resp \in ProbeResponses(mapping[mkey]) :
          /\ ~issue_exists(resp)
          /\ IF resp \in ErrorResponses /\ mapping[mkey] \in alive
             THEN wrong_probes < MaxWrongProbes /\ wrong_probes' = wrong_probes + 1
             ELSE wrong_probes' = wrong_probes
    /\ mapping' = Pop(mapping, mkey)
    /\ disk' = save_mapping(mapping')
    /\ st' = "create"
    /\ UNCHANGED <<run, auth, ph, ix, cpass, epic_map, linked_pairs, report, tally>>
    /\ UNCHANGED <<alive, nextKey, rel12>>
    /\ UNCHANGED <<inflight, created, saved, calls, clean, prev, stale0, deletes, failures,
                   interrupts, log, confirmed, link_calls, moved, issued>>
    /\ UNCHANGED ovars

\* jira.create_issue answers with the new entity (directly for an epic, inside
\* _try_create_issue for a child)
CreateSucceeds ==
    /\ InCreation /\ st = "create"
    /\ nextKey <= MaxKeys
    /\ alive' = alive \cup {nextKey}
    /\ nextKey' = nextKey + 1
    /\ inflight' = nextKey
    /\ created' = created \cup {<<mkey, nextKey, run>>}
    /\ calls' = calls + 1
    /\ st' = "persist"
    /\ UNCHANGED <<run, auth, ph, ix, cpass, mapping, epic_map, linked_pairs, report, tally>>
    /\ UNCHANGED <<disk, rel12, saved, clean, prev, stale0, wrong_probes, deletes, failures,
                   interrupts, log, confirmed, link_calls, moved, issued, ovars>>

\* the create call fails with an error the handler repairs, and
\* _try_create_issue goes to its next pass
CreateRetries ==
    /\ InCreation /\ st = "create"
    /\ wrapped
    /\ ~LoopExhausted(cpass)
    /\ cpass' = cpass + 1
    /\ calls' = calls + 1
    /\ UNCHANGED <<run, auth, ph, ix, st, mapping, epic_map, linked_pairs, report, tally>>
    /\ UNCHANGED <<worldvars, inflight, created, saved, clean, prev, stale0, wrong_probes,
                   deletes, failures, interrupts, log, confirmed, link_calls, moved, issued, ovars>>

mapping_after_failure_with_entry == Put(mapping, mkey, nextKey)

\* the except branches of a creation leave the mapping dict as it is
mapping_after_failure == mapping

\* build_jira_fields raises in _create_one_issue: the item fails before any
\* create call
FieldBuildFails ==
    /\ InCreation /\ st = "create"
    /\ wrapped /\ cpass = 0
    /\ Fails
    /\ report' = [report EXCEPT
                    !.failed_issues = Append(@, FailedIssue("fields", "exception"))]
    /\ clean' = FALSE
    /\ tally' = Tallied("failed")
    /\ mapping' = mapping_after_failure
    /\ Advance
    /\ UNCHANGED <<run, auth, epic_map, linked_pairs>>
    /\ UNCHANGED <<worldvars, inflight, created, saved, calls, prev, stale0, wrong_probes,
                   deletes, interrupts, log, confirmed, link_calls, moved, issued, ovars>>

\* the creation fails for good: any error of a create call that is not wrapped,
\* an error the handler re-raises, or a repairable one on the last pass
CreateFails ==
    /\ InCreation /\ st = "create"
    /\ Fails
    /\ \E shape \in ErrorShapes :
          /\ (wrapped /\ shape = "repairable") => LoopExhausted(cpass)
          /\ report' = [report EXCEPT
                          !.failed_issues = Append(@, FailedIssue("create", shape))]
    /\ calls' = calls + 1
    /\ clean' = FALSE
    /\ tally' = Tallied("failed")
    /\ mapping' = mapping_after_failure
    /\ Advance
    /\ UNCHANGED <<run, auth, epic_map, linked_pairs>>
    /\ UNCHANGED <<worldvars, inflight, created, saved, prev, stale0, wrong_probes, deletes,
                   interrupts, log, confirmed, link_calls, moved, issued, ovars>>

\* epic_map[pid] = jkey (epics); mapping[key] = jkey; save_mapping(mapping)
Persist ==
    /\ InCreation /\ st = "persist"
    /\ epic_map' = IF is_epic THEN Put(epic_map, item, inflight) ELSE epic_map
    /\ confirmed' = IF is_epic THEN confirmed \cup {<<item, inflight>>} ELSE confirmed
    /\ mapping' = Put(mapping, mkey, inflight)
    /\ disk' = save_mapping(mapping')
    /\ saved' = saved \cup Range(disk')
    /\ inflight' = 0
    /\ st' = "desc"
    /\ UNCHANGED <<run, auth, ph, ix, cpass, linked_pairs, report, tally>>
    /\ UNCHANGED <<alive, nextKey, rel12, created, calls, clean, prev, stale0, wrong_probes,
                   deletes, failures, interrupts, log, link_calls, moved, issued, ovars>>

Event(kind, k, k2, lt) == [kind |-> kind, key |-> k, other |-> k2, lt |-> lt, run |-> run]

\* a call of jira.update_issue (description of the entity made for mapping
\* key `of`) or of jira.add_comment (activity of issue `of`), and whether it
\* returned (ok) or raised
Call(name, k, of, ok) == [call |-> name, key |-> k, of |-> of, ok |-> ok]

\* upload_images_and_build_description, then jira.update_issue(key, description)
DescriptionUpdated ==
    /\ InCreation /\ st = "desc"
    /\ log' = log \cup {Event("desc", mapping[mkey], 0, "")}
    /\ issued' = Append(issued, Call("update_issue", mapping[mkey], mkey, TRUE))
    /\ tally' = Tallied("created")
    /\ Advance
    /\ UNCHANGED <<run, auth, mapping, epic_map, linked_pairs, report>>
    /\ UNCHANGED <<worldvars, inflight, created, saved, calls, clean, prev, stale0, wrong_probes,
                   deletes, failures, interrupts, confirmed, link_calls, moved, ovars>>

\* jira.update_issue raises: recorded for an epic, only printed for a child,
\* which still counts as created
DescriptionFailed ==
    /\ InCreation /\ st = "desc"
    /\ Fails
    /\ log' = log \cup {Event("desc", mapping[mkey], 0, "")}
    /\ issued' = Append(issued, Call("update_issue", mapping[mkey], mkey, FALSE))
    /\ report' = IF is_epic
                 THEN [report EXCEPT
                         !.failed_issues = Append(@, FailedIssue("description", "update"))]
                 ELSE report
    /\ tally' = Tallied("created")
    /\ Advance
    /\ UNCHANGED <<run, auth, mapping, epic_map, linked_pairs>>
    /\ UNCHANGED <<worldvars, inflight, created, saved, calls, clean, prev, stale0, wrong_probes,
                   deletes, interrupts, confirmed, link_calls, moved, ovars>>

(***************************************************************************)
(* The pipeline of main(): late phases                                     *)
(***************************************************************************)
\* v.startswith("__") for a value of the mapping: the values are destination
\* keys ("PROJ-123"); the "__epic__" prefix is on the mapping's keys
StartsWithUnderscores(v) == FALSE

\* keys = [v for v in mapping.values() if v and not v.startswith("__")]
backlog_keys(m) ==
    {m[s] : s \in {x \in DOMAIN m : m[x] # NoKey /\ ~StartsWithUnderscores(m[x])}}

LateUnchanged == UNCHANGED <<run, auth, mapping, epic_map, tally, worldvars, ovars,
                             inflight, created, saved, calls, clean, prev, stale0,
                             wrong_probes, deletes, interrupts, confirmed>>

\* phase_move_to_backlog: one batch (at most 50 keys) of the mapping's values;
\* no call when there is no key
MoveToBacklog ==
    /\ ph = "backlog"
    /\ moved' = backlog_keys(mapping)
    /\ Advance
    /\ UNCHANGED <<linked_pairs, report, log, link_calls, issued>>
    /\ UNCHANGED failures
    /\ LateUnchanged

\* jira.move_to_backlog(batch) raises: the failure is only printed
BacklogFailed ==
    /\ ph = "backlog"
    /\ backlog_keys(mapping) # {}
    /\ Fails
    /\ moved' = backlog_keys(mapping)
    /\ Advance
    /\ UNCHANGED <<linked_pairs, report, log, link_calls, issued>>
    /\ LateUnchanged

\* phase_upload_attachments: the issue has no mapping entry
AttachSkip ==
    /\ ph = "attach"
    /\ item.issue \notin DOMAIN mapping
    /\ Advance
    /\ UNCHANGED <<linked_pairs, report, log, link_calls, moved, issued>>
    /\ UNCHANGED failures
    /\ LateUnchanged

AttachUploaded ==
    /\ ph = "attach"
    /\ item.issue \in DOMAIN mapping
    /\ log' = log \cup {Event("upload", mapping[item.issue], 0, item.of)}
    /\ Advance
    /\ UNCHANGED <<linked_pairs, report, link_calls, moved, issued>>
    /\ UNCHANGED failures
    /\ LateUnchanged

\* the download fails (a remote link is tried instead) or the upload fails
AttachFailed ==
    /\ ph = "attach"
    /\ item.issue \in DOMAIN mapping
    /\ report' = [report EXCEPT !.failed_attachments = Append(@, item.issue)]
    /\ Advance
    /\ UNCHANGED <<linked_pairs, log, link_calls, moved, issued>>
    /\ Fails
    /\ LateUnchanged

has_activity_always(i) == TRUE

\* has_history or has_comments
has_activity(i) == Issue(i).activity

\* phase_post_activity_comments: no mapping entry, or neither history nor comments
CommentSkip ==
    /\ ph = "comments"
    /\ item \notin DOMAIN mapping \/ ~has_activity(item)
    /\ Advance
    /\ UNCHANGED <<linked_pairs, report, log, link_calls, moved, issued>>
    /\ UNCHANGED failures
    /\ LateUnchanged

CommentPosted ==
    /\ ph = "comments"
    /\ item \in DOMAIN mapping /\ has_activity(item)
    /\ log' = log \cup {Event("comment", mapping[item], 0, "")}
    /\ issued' = Append(issued, Call("add_comment", mapping[item], item, TRUE))
    /\ Advance
    /\ UNCHANGED <<linked_pairs, report, link_calls, moved>>
    /\ UNCHANGED failures
    /\ LateUnchanged

CommentFailed ==
    /\ ph = "comments"
    /\ item \in DOMAIN mapping /\ has_activity(item)
    /\ report' = [report EXCEPT !.failed_comments = Append(@, item)]
    /\ issued' = Append(issued, Call("add_comment", mapping[item], item, FALSE))
    /\ Advance
    /\ UNCHANGED <<linked_pairs, log, link_calls, moved>>
    /\ Fails
    /\ LateUnchanged

\* phase_create_links: the ends and the dedup key of the current relation
link_type == RELATION_TYPE_MAP(item.of.type)

outward_self == mapping[item.issue]

outward ==
    IF item.of.type \in {"blocked_by", "duplicate_by"}
    THEN mapping[item.of.related] ELSE mapping[item.issue]

inward ==
    IF item.of.type \in {"blocked_by", "duplicate_by"}
    THEN mapping[item.issue] ELSE mapping[item.of.related]

pair == <<link_type, {outward, inward}>>

LinkBothMapped == item.issue \in DOMAIN mapping /\ item.of.related \in DOMAIN mapping

\* JiraClient.create_issue_link: the body of POST /issueLink
create_issue_link(lt, outward_key, inward_key) ==
    [type |-> lt, outwardIssue |-> outward_key, inwardIssue |-> inward_key]

\* an end is not mapped, or the pair was linked already
LinkSkip ==
    /\ ph = "links"
    /\ IF LinkBothMapped THEN pair \in linked_pairs ELSE TRUE
    /\ Advance
    /\ UNCHANGED <<linked_pairs, report, log, link_calls, moved, issued>>
    /\ UNCHANGED failures
    /\ LateUnchanged

LinkCreated ==
    /\ ph = "links"
    /\ LinkBothMapped /\ pair \notin linked_pairs
    /\ linked_pairs' = linked_pairs \cup {pair}
    /\ link_calls' = Append(link_calls, create_issue_link(link_type, outward, inward))
    /\ log' = log \cup {Event("link", outward, inward, link_type)}
    /\ Advance
    /\ UNCHANGED <<report, moved, issued>>
    /\ UNCHANGED failures
    /\ LateUnchanged

\* jira.create_issue_link raises: the failure is printed and counted, the
\* report gets no entry
LinkFailed ==
    /\ ph = "links"
    /\ LinkBothMapped /\ pair \notin linked_pairs
    /\ linked_pairs' = linked_pairs \cup {pair}
    /\ link_calls' = Append(link_calls, create_issue_link(link_type, outward, inward))
    /\ Advance
    /\ UNCHANGED <<report, log, moved, issued>>
    /\ Fails
    /\ LateUnchanged

(***************************************************************************)
(* Interrupt, re-run, and the destination changing between runs            *)
(***************************************************************************)
Running == ph \notin {"done", "aborted", "fatal"}

\* KeyboardInterrupt is raised wherever the process is; the handler around
\* main() prints "Aborted." and exits, and the process memory is gone
Interrupt ==
    /\ Running
    /\ ph' = "aborted" /\ ix' = 1 /\ st' = "check" /\ cpass' = 0
    /\ mapping' = EmptyDict /\ epic_map' = EmptyDict /\ linked_pairs' = {}
    /\ report' = NoReport /\ tally' = NoTally
    /\ interrupts < MaxInterrupts
    /\ interrupts' = interrupts + 1
    /\ UNCHANGED <<run, auth, worldvars, ovars>>
    /\ UNCHANGED <<inflight, created, saved, calls, clean, prev, stale0, wrong_probes, deletes,
                   failures, log, confirmed, link_calls, moved, issued>>

\* the script is run again: main() reaches mapping = load_mapping()
StartRun ==
    /\ ~Running
    /\ run < MaxRuns
    /\ run' = run + 1
    /\ auth' = "ok"
    /\ Goto(FirstPhaseFrom(1), 1)
    /\ mapping' = load_mapping(disk)
    /\ epic_map' = EmptyDict /\ linked_pairs' = {} /\ report' = NoReport /\ tally' = NoTally
    /\ inflight' = 0 /\ calls' = 0 /\ clean' = TRUE
    /\ prev' = [clean |-> ph = "done" /\ clean, disk |-> disk]
    /\ stale0' = {s \in DOMAIN disk : disk[s] \notin alive}
    /\ confirmed' = {} /\ link_calls' = <<>> /\ moved' = {} /\ issued' = <<>>
    /\ UNCHANGED <<worldvars, created, saved, wrong_probes, deletes, failures, interrupts, log,
                   ovars>>

AfterAuthFailure_goes_on == FirstPhaseFrom(1)

\* where main() is after a failed verification: sys.exit(1)
AfterAuthFailure == "fatal"

\* the script is run again and linear_fetch_viewer or jira.get_myself raises
AuthFails ==
    /\ ~Running
    /\ run < MaxRuns
    /\ run' = run + 1
    /\ auth' \in {"linear_failed", "jira_failed"}
    /\ Goto(AfterAuthFailure, 1)
    /\ mapping' = EmptyDict
    /\ epic_map' = EmptyDict /\ linked_pairs' = {} /\ report' = NoReport /\ tally' = NoTally
    /\ inflight' = 0 /\ calls' = 0 /\ clean' = TRUE
    /\ prev' = [clean |-> ph = "done" /\ clean, disk |-> disk]
    /\ stale0' = {}
    /\ confirmed' = {} /\ link_calls' = <<>> /\ moved' = {} /\ issued' = <<>>
    /\ UNCHANGED <<worldvars, created, saved, wrong_probes, deletes, failures, interrupts, log,
                   ovars>>

\* somebody deletes a mapped destination entity between two runs
DeleteOutOfBand ==
    /\ ~Running
    /\ run < MaxRuns
    /\ deletes < MaxDeletes
    /\ \E k \in Range(disk) \cap alive : alive' = alive \ {k}
    /\ deletes' = deletes + 1
    /\ UNCHANGED <<procvars, disk, nextKey, rel12, ovars>>
    /\ UNCHANGED <<inflight, created, saved, calls, clean, prev, stale0, wrong_probes,
                   failures, interrupts, log, confirmed, link_calls, moved, issued>>

Next ==
    \/ CheckNotMapped
    \/ CheckSkip
    \/ CheckStale
    \/ CreateSucceeds
    \/ CreateRetries
    \/ CreateFails
    \/ FieldBuildFails
    \/ Persist
    \/ DescriptionUpdated
    \/ DescriptionFailed
    \/ MoveToBacklog
    \/ BacklogFailed
    \/ AttachSkip
    \/ AttachUploaded
    \/ AttachFailed
    \/ CommentSkip
    \/ CommentPosted
    \/ CommentFailed
    \/ LinkSkip
    \/ LinkCreated
    \/ LinkFailed
    \/ Interrupt
    \/ StartRun
    \/ AuthFails
    \/ DeleteOutOfBand

Spec == Init /\ [][Next]_vars

(***************************************************************************)
(* save_mapping and load_mapping on the file system                        *)
(***************************************************************************)
\* the mapping's keys in the order the dict holds them, and the values used
KeyOrder == <<"I1", "I2">>

Tables == UNION { [d -> 1..2] : d \in SUBSET {KeyOrder[n] : n \in 1..Len(KeyOrder)} }

\* json.dump(mapping, fh, indent=2): the whole text, in the pieces that are
\* written one after another
json_dump(m) ==
    LET Tok(t, k, v) == [t |-> t, k |-> k, v |-> v]
        InM(k) == k \in DOMAIN m
        ks == SelectSeq(KeyOrder, InM)
    IN  <<Tok("{", "", 0)>> \o [n \in 1..Len(ks) |-> Tok("entry", ks[n], m[ks[n]])]
                           \o <<Tok("}", "", 0)>>

\* json.load(fh): the dict of a complete text; any other text raises
json_load(text) ==
    LET n == Len(text)
        complete == /\ n >= 2 /\ text[1].t = "{" /\ text[n].t = "}"
                    /\ \A i \in 2..(n - 1) : text[i].t = "entry"
    IN  IF complete
        THEN [ok |-> TRUE,
              value |-> [k \in {text[i].k : i \in 2..(n - 1)} |->
                            text[CHOOSE i \in 2..(n - 1) : text[i].k = k].v]]
        ELSE [ok |-> FALSE, value |-> EmptyDict]

\* load_mapping() on the file system: {} when the file is missing or does not
\* parse
load_mapping_file(f) ==
    IF ~f["map"].exists THEN EmptyDict
    ELSE IF json_load(f["map"].text).ok THEN json_load(f["map"].text).value
    ELSE EmptyDict

TmpPath_same == "map"

\* tmp = MAPPING_FILE + ".tmp"
TmpPath == "tmp"

\* os.replace(src, dst): one atomic rename
os_replace(f, src, dst) ==
    IF src = dst THEN f ELSE [f EXCEPT ![dst] = f[src], ![src] = NoFile]

\* save_mapping(table) is called: the mapping file is missing or holds a table
\* an earlier save wrote; an earlier, crashed save can have left any part of a
\* text under the temporary name
InitSave ==
    /\ RetryIdle /\ PipelineIdle /\ DescIdle /\ FnIdle
    /\ table \in Tables
    /\ LET Leftovers ==
               {NoFile} \cup UNION { { File(SubSeq(json_dump(t), 1, n)) :
                                          n \in 0..Len(json_dump(t)) } : t \in Tables }
       IN  \E old \in Tables, there \in BOOLEAN, left \in Leftovers :
              fs = [f \in {"map", "tmp"} |->
                       IF f = "tmp" THEN left
                       ELSE IF there THEN File(json_dump(old)) ELSE NoFile]
    /\ before = load_mapping_file(fs)
    /\ save_pc = "open"
    /\ loaded = NotLoaded

\* open(tmp, "w"): the file is created, or cut to nothing
SaveOpen ==
    /\ save_pc = "open"
    /\ fs' = [fs EXCEPT ![TmpPath] = File(<<>>)]
    /\ save_pc' = "dump"
    /\ UNCHANGED <<table, before, loaded, rvars, pvars, description_md, media_map, media_log, desc_adf, desc_pc, fvars>>

\* json.dump writes the next piece; the with block closes the file after the last
SaveDump ==
    /\ save_pc = "dump"
    /\ LET text == json_dump(table)
           n    == Len(fs[TmpPath].text) + 1
       IN  /\ fs' = [fs EXCEPT ![TmpPath] = File(SubSeq(text, 1, n))]
           /\ save_pc' = IF n = Len(text) THEN "replace" ELSE "dump"
    /\ UNCHANGED <<table, before, loaded, rvars, pvars, description_md, media_map, media_log, desc_adf, desc_pc, fvars>>

\* os.replace(tmp, MAPPING_FILE)
SaveReplace ==
    /\ save_pc = "replace"
    /\ fs' = os_replace(fs, TmpPath, "map")
    /\ save_pc' = "done"
    /\ UNCHANGED <<table, before, loaded, rvars, pvars, description_md, media_map, media_log, desc_adf, desc_pc, fvars>>

\* the process dies before the step it was about to take
SaveCrash ==
    /\ save_pc \in {"open", "dump", "replace"}
    /\ save_pc' = CASE save_pc = "open"    -> "crashed_open"
                     [] save_pc = "dump"    -> "crashed_dump"
                     [] save_pc = "replace" -> "crashed_replace"
    /\ UNCHANGED fs
    /\ UNCHANGED <<table, before, loaded, rvars, pvars, description_md, media_map, media_log, desc_adf, desc_pc, fvars>>

\* the next run: mapping = load_mapping()
LoadNext ==
    /\ save_pc \notin {"open", "dump", "replace"}
    /\ ~loaded.done
    /\ loaded' = [done |-> TRUE, value |-> load_mapping_file(fs)]
    /\ UNCHANGED <<fs, save_pc, table, before, rvars, pvars, description_md, media_map, media_log, desc_adf, desc_pc, fvars>>

NextSave ==
    \/ SaveOpen
    \/ SaveDump
    \/ SaveReplace
    \/ SaveCrash
    \/ LoadNext

SpecSave == InitSave /\ [][NextSave]_vars

(***************************************************************************)
(* The description step: upload_images_and_build_description, then         *)
(* jira.update_issue                                                       *)
(***************************************************************************)
MaxPieces == 3

\* a Markdown body as the sequence of pieces the patterns cut it into: plain
\* text, an image ![alt](url), a link [text](url); L1 and L2 are source-hosted
\* URLs, W is any other URL
Bodies ==
    LET Piece(k, url) == [k |-> k, url |-> url]
        Pieces == {Piece("text", ""), Piece("image", "L1"), Piece("image", "L2"),
                   Piece("link", "L1"), Piece("link", "W")}
    IN  UNION { [1..n -> Pieces] : n \in 0..MaxPieces }

\* extract_image_urls(markdown): the url of every image, in order
extract_image_urls(md) ==
    LET IsImage(p) == p.k = "image"
        imgs == SelectSeq(md, IsImage)
    IN  [n \in 1..Len(imgs) |-> imgs[n].url]

\* _inline_marks on one piece: a text node, with a link mark for a link and
\* for an image
_inline_marks(p) ==
    IF p.k \in {"link", "image"}
    THEN [type |-> "text", kind |-> "link", ref |-> p.url]
    ELSE [type |-> "text", kind |-> "plain", ref |-> ""]

\* markdown_to_adf(seg).get("content", []) for a run of pieces holding no image
markdown_to_adf(seg) ==
    IF seg = <<>> THEN <<>>
    ELSE <<[type |-> "paragraph",
            content |-> [n \in 1..Len(seg) |-> _inline_marks(seg[n])]]>>

RECURSIVE split_and_convert(_, _, _)
\* the loop over _IMAGE_SPLIT_PATTERN.split(markdown): seg collects the pieces
\* since the last image; an image becomes a mediaSingle node, or nothing when
\* media_map has no entry for its url
split_and_convert(md, seg, remap) ==
    LET url == Head(md).url
        media_single ==
            IF url \in DOMAIN remap /\ remap[url].kind \in {"file", "external"}
            THEN <<[type |-> "mediaSingle",
                    content |-> <<[type |-> "media", kind |-> remap[url].kind,
                                   ref |-> remap[url].ref]>>]>>
            ELSE <<>>
    IN  IF md = <<>> THEN markdown_to_adf(seg)
        ELSE IF Head(md).k = "image"
             THEN markdown_to_adf(seg) \o media_single
                      \o split_and_convert(Tail(md), <<>>, remap)
             ELSE split_and_convert(Tail(md), Append(seg, Head(md)), remap)

build_description_adf_with_media(md, remap) == Doc(split_and_convert(md, <<>>, remap))

\* how the handling of one image ends: the download gives nothing; the upload
\* raises, or answers without data; the upload gives a media UUID, only a
\* content URL, or neither
MediaOutcomes == {"download_failed", "upload_raised", "upload_empty",
                  "file", "external", "no_handle"}

Propagates_upload(o) == o = "upload_raised"

\* the outcome leaves upload_images_and_build_description as an exception:
\* none does, linear_download_file returns None and the upload is in a try
Propagates(o) == FALSE

\* the pipeline right after the save of a created entity's mapping entry: the
\* epic of P1, or the child I1 under it
DescStart(child) ==
    /\ run = 1 /\ auth = "ok" /\ ix = 1 /\ st = "desc" /\ cpass = 0
    /\ ph = (IF child THEN "bugs" ELSE "epics")
    /\ mapping = (IF child THEN [k \in {"__epic__P1", "I1"} |-> IF k = "I1" THEN 2 ELSE 1]
                   ELSE [k \in {"__epic__P1"} |-> 1])
    /\ disk = mapping
    /\ epic_map = [k \in {"P1"} |-> 1] /\ linked_pairs = {} /\ report = NoReport
    /\ tally = NoTally
    /\ alive = (IF child THEN {1, 2} ELSE {1}) /\ nextKey = (IF child THEN 3 ELSE 2)
    /\ saved = alive /\ inflight = 0
    /\ created = {<<"__epic__P1", 1, 1>>} \cup (IF child THEN {<<"I1", 2, 1>>} ELSE {})
    /\ calls = (IF child THEN 2 ELSE 1) /\ clean = TRUE
    /\ prev = NoPrev /\ stale0 = {} /\ wrong_probes = 0 /\ deletes = 0
    /\ failures = 0 /\ interrupts = 0
    /\ log = (IF child THEN {[kind |-> "desc", key |-> 1, other |-> 0, lt |-> "", run |-> 1]}
               ELSE {})
    /\ confirmed = {<<"P1", 1>>} /\ link_calls = <<>> /\ moved = {}
    /\ issued = (IF child THEN <<Call("update_issue", 1, "__epic__P1", TRUE)>> ELSE <<>>)

InitDesc ==
    /\ RetryIdle /\ SaveIdle /\ FnIdle
    /\ rel12 = "blocks"
    /\ \E child \in BOOLEAN : DescStart(child)
    /\ description_md \in Bodies
    /\ media_map = EmptyDict /\ media_log = <<>>
    /\ desc_adf = Doc(<<>>) /\ desc_pc = "images"

\* one turn of the loop over image_urls: download, upload, media UUID lookup
DescImage ==
    /\ desc_pc = "images"
    /\ Len(media_log) < Len(extract_image_urls(description_md))
    /\ \E o \in MediaOutcomes :
          LET url == extract_image_urls(description_md)[Len(media_log) + 1]
          IN  /\ media_log' = Append(media_log, o)
              /\ media_map' =
                    CASE o = "file"     -> Put(media_map, url, [kind |-> "file", ref |-> "uuid"])
                      [] o = "external" -> Put(media_map, url, [kind |-> "external", ref |-> "J"])
                      [] OTHER          -> media_map
              /\ IF Propagates(o)
                 THEN /\ desc_pc' = "raised"
                      /\ report' = [report EXCEPT
                                      !.failed_issues = Append(@, FailedIssue("create", o))]
                      /\ tally' = Tallied("failed")
                      /\ Advance
                 ELSE UNCHANGED <<desc_pc, report, tally, ph, ix, st, cpass>>
    /\ UNCHANGED <<description_md, desc_adf, run, auth, mapping, epic_map, linked_pairs>>
    /\ UNCHANGED <<worldvars, histvars, rvars, fs, save_pc, table, before, loaded, fvars>>

\* return build_description_adf_with_media(description_md, media_map)
DescBuild ==
    /\ desc_pc = "images"
    /\ Len(media_log) = Len(extract_image_urls(description_md))
    /\ desc_adf' = build_description_adf_with_media(description_md, media_map)
    /\ desc_pc' = "built"
    /\ UNCHANGED <<description_md, media_map, media_log>>
    /\ UNCHANGED <<pvars, rvars, fs, save_pc, table, before, loaded, fvars>>

\* jira.update_issue(key, {"description": desc_adf}) returns or raises
DescUpdate ==
    /\ desc_pc = "built"
    /\ \/ DescriptionUpdated
       \/ DescriptionFailed

NextDesc ==
    \/ DescImage
    \/ DescBuild
    \/ DescUpdate

SpecDesc == InitDesc /\ [][NextDesc]_vars

(***************************************************************************)
(* SpecFn: one call of a pure function                                     *)
(***************************************************************************)
\* ---- resolve_due_date ----
\* A field value of a Linear issue: None, "", a date "YYYY-MM-DD", a timestamp
\* "YYYY-MM-DDThh:mm:ssZ" (half 0: midnight, half 1: noon), a decimal number of
\* days "d" or "d.5", or some other text.  day counts days from a fixed origin.
Val(k, d, h) == [kind |-> k, day |-> d, half |-> h]

NoneV == Val("none", 0, 0)

Empty == Val("empty", 0, 0)

Text == Val("text", 0, 0)

DateStr(d) == Val("date", d, 0)

Stamp(d, h) == Val("stamp", d, h)

NumStr(d, h) == Val("num", d, h)

\* bool(v)
truthy(v) == v.kind \notin {"none", "empty"}

\* datetime.fromisoformat(...).strftime("%Y-%m-%d"), None on any exception
_parse_iso_to_date(s) ==
    IF s.kind \in {"date", "stamp"} THEN DateStr(s.day) ELSE NoneV

\* (created + timedelta(days=float(val))).strftime("%Y-%m-%d"); None where the
\* code's try block raises
days_from_creation(issue, val) ==
    IF issue.createdAt.kind \in {"date", "stamp"} /\ val.kind = "num"
    THEN DateStr((2 * (issue.createdAt.day + val.day)
                    + issue.createdAt.half + val.half) \div 2)
    ELSE NoneV

\* "sli" in name or "sla" in name or "service level" in name, name lower-cased,
\* for the names "SLI Date", "Resolution SLA" and "Team"
is_indicator(name) == name \in {"SLI Date", "Resolution SLA"}

RECURSIVE from_custom_fields(_, _)
\* the loop over issue.get("customFieldValues")
from_custom_fields(issue, cfs) ==
    IF cfs = <<>> THEN NoneV
    ELSE LET cfv == Head(cfs)
         IN  IF is_indicator(cfv.name) /\ truthy(cfv.value)
             THEN IF _parse_iso_to_date(cfv.value) # NoneV
                  THEN _parse_iso_to_date(cfv.value)
                  ELSE IF days_from_creation(issue, cfv.value) # NoneV
                       THEN days_from_creation(issue, cfv.value)
                       ELSE from_custom_fields(issue, Tail(cfs))
             ELSE from_custom_fields(issue, Tail(cfs))

resolve_due_date_sla_first(issue) ==
    IF truthy(issue.slaDueAt) /\ _parse_iso_to_date(issue.slaDueAt) # NoneV
    THEN _parse_iso_to_date(issue.slaDueAt)
    ELSE IF truthy(issue.dueDate) THEN issue.dueDate
         ELSE from_custom_fields(issue, issue.customFieldValues)

resolve_due_date(issue) ==
    IF truthy(issue.dueDate) THEN issue.dueDate
    ELSE IF truthy(issue.slaDueAt) /\ _parse_iso_to_date(issue.slaDueAt) # NoneV
         THEN _parse_iso_to_date(issue.slaDueAt)
         ELSE from_custom_fields(issue, issue.customFieldValues)

MaxFields == 2

\* the issues resolve_due_date is called on
DueIssues ==
    LET Field  == [name : {"SLI Date", "Resolution SLA", "Team"},
                   value : {NoneV, Stamp(3, 0), Text, NumStr(1, 1)}]
        Fields == UNION {[1..n -> Field] : n \in 0..MaxFields}
    IN  [dueDate : {NoneV, Empty, DateStr(9)},
         slaDueAt : {NoneV, Stamp(5, 1), Text},
         createdAt : {NoneV, Stamp(1, 1)},
         customFieldValues : Fields]

\* ---- parse_selection ----
\* A string is the sequence of its characters.
Digits == <<"0", "1", "2", "3", "4", "5", "6", "7", "8", "9">>

IsDigit(c) == \E d \in 1..Len(Digits) : Digits[d] = c

DigitValue(c) == (CHOOSE d \in 1..Len(Digits) : Digits[d] = c) - 1

RECURSIVE strip(_)
\* str.strip()
strip(s) ==
    IF s = <<>> THEN s
    ELSE IF Head(s) = " " THEN strip(Tail(s))
    ELSE IF s[Len(s)] = " " THEN strip(SubSeq(s, 1, Len(s) - 1))
    ELSE s

\* str.lower()
lower(s) == [n \in 1..Len(s) |-> CASE s[n] = "A" -> "a" [] s[n] = "L" -> "l" [] OTHER -> s[n]]

\* s.find(sep): the first position of the character, 0 when it is not there
find(s, sep) ==
    IF \E n \in 1..Len(s) : s[n] = sep
    THEN CHOOSE n \in 1..Len(s) : s[n] = sep /\ \A m \in 1..(n - 1) : s[m] # sep
    ELSE 0

RECURSIVE split(_, _)
\* s.split(sep)
split(s, sep) ==
    IF find(s, sep) = 0 THEN <<s>>
    ELSE <<SubSeq(s, 1, find(s, sep) - 1)>> \o split(SubSeq(s, find(s, sep) + 1, Len(s)), sep)

RECURSIVE digits_value(_, _)
digits_value(s, acc) ==
    IF s = <<>> THEN acc ELSE digits_value(Tail(s), 10 * acc + DigitValue(Head(s)))

\* int(s): surrounding blanks and a sign are accepted; ValueError otherwise
to_int(s) ==
    LET t      == strip(s)
        signed == t # <<>> /\ Head(t) = "-"
        body   == IF signed THEN Tail(t) ELSE t
    IN  IF body # <<>> /\ \A n \in 1..Len(body) : IsDigit(body[n])
        THEN [ok |-> TRUE, n |-> IF signed THEN 0 - digits_value(body, 0)
                                           ELSE digits_value(body, 0)]
        ELSE [ok |-> FALSE, n |-> 0]

range_out_of_bounds_inverted_allowed(lo, hi, max_num) == lo < 1 \/ hi > max_num

\* lo < 1 or hi > max_num or lo > hi
range_out_of_bounds(lo, hi, max_num) == lo < 1 \/ hi > max_num \/ lo > hi

\* what parse_selection returns: None, or a set
Everything == [all |-> TRUE, set |-> {}]

Selected(S) == [all |-> FALSE, set |-> S]

RECURSIVE parse_parts(_, _, _)
\* the loop over raw.split(",")
parse_parts(parts, max_num, selected) ==
    IF parts = <<>> THEN Returned(Selected(selected))
    ELSE LET part == strip(Head(parts))
             dash == find(part, "-")
             lo   == to_int(SubSeq(part, 1, dash - 1))
             hi   == to_int(SubSeq(part, dash + 1, Len(part)))
             n    == to_int(part)
         IN  IF dash # 0
             THEN IF ~lo.ok \/ ~hi.ok THEN RaisedValueError
                  ELSE IF range_out_of_bounds(lo.n, hi.n, max_num) THEN RaisedValueError
                  ELSE parse_parts(Tail(parts), max_num, selected \cup (lo.n)..(hi.n))
             ELSE IF ~n.ok THEN RaisedValueError
                  ELSE IF n.n < 1 \/ n.n > max_num THEN RaisedValueError
                  ELSE parse_parts(Tail(parts), max_num, selected \cup {n.n})

parse_selection(raw, max_num) ==
    IF lower(strip(raw)) \in {<<"a", "l", "l">>, <<"a">>, <<>>}
    THEN Returned(Everything)
    ELSE parse_parts(split(lower(strip(raw)), ","), max_num, {})

MaxNum == 10

MaxParts == 2

RECURSIVE render_int(_)
\* str(n)
render_int(n) ==
    IF n < 10 THEN <<Digits[n + 1]>> ELSE render_int(n \div 10) \o <<Digits[(n % 10) + 1]>>

RECURSIVE render_list(_, _)
\* the text a user types for a list of numbers and ranges, with or without blanks
render_list(listed, pad) ==
    LET p    == Head(listed)
        text == IF p.range THEN render_int(p.lo) \o pad \o <<"-">> \o pad \o render_int(p.hi)
                           ELSE render_int(p.lo)
    IN  IF Len(listed) = 1 THEN pad \o text \o pad
        ELSE pad \o text \o pad \o <<",">> \o render_list(Tail(listed), pad)

\* the inputs of parse_selection: the text, the maximum, and what the text lists
Selections ==
    LET Near    == {0, 1, 2, MaxNum - 1, MaxNum, MaxNum + 1}
        Part    == [range : {FALSE}, lo : Near, hi : {0}] \cup [range : {TRUE}, lo : Near, hi : Near]
        Lists   == UNION {[1..n -> Part] : n \in 1..MaxParts}
        Keyword == {<<>>, <<" ">>, <<"a">>, <<"A">>, <<"a", "l", "l">>,
                    <<" ", "A", "L", "L", " ">>}
    IN  {[raw |-> render_list(l, pad), max_num |-> MaxNum, listed |-> l] :
            l \in Lists, pad \in {<<>>, <<" ">>}}
        \cup {[raw |-> k, max_num |-> MaxNum, listed |-> <<>>] : k \in Keyword}

\* ---- build_activity_comment_md ----
\* createdAt values: timestamps of one format, here its hour field
Stamps == {<<"0", "9">>, <<"1", "0">>, <<"1", "1">>}

RECURSIVE str_le(_, _)
\* a <= b on Python strings
str_le(a, b) ==
    IF a = <<>> THEN TRUE
    ELSE IF b = <<>> THEN FALSE
    ELSE IF Head(a) = Head(b) THEN str_le(Tail(a), Tail(b))
    ELSE DigitValue(Head(a)) < DigitValue(Head(b))

\* a line of the Markdown text; n is the place of an event in its input stream
Line(kind, ts, n) == [kind |-> kind, ts |-> ts, n |-> n]

unsorted(events) == events

RECURSIVE sort_by_ts(_)
\* events.sort(key=lambda e: e[0]): a stable sort
sort_by_ts(events) ==
    IF events = <<>> THEN <<>>
    ELSE LET e     == events[Len(events)]
             front == sort_by_ts(SubSeq(events, 1, Len(events) - 1))
             k     == Cardinality({n \in 1..Len(front) : str_le(front[n].ts, e.ts)})
         IN  SubSeq(front, 1, k) \o <<e>> \o SubSeq(front, k + 1, Len(front))

RECURSIVE render_events(_)
\* for _, text in events: lines.append(text); lines += ["", "---", ""]
render_events(events) ==
    IF events = <<>> THEN <<>>
    ELSE <<Head(events), Line("blank", <<>>, 0), Line("rule", <<>>, 0), Line("blank", <<>>, 0)>>
           \o render_events(Tail(events))

build_activity_comment_md(issue) ==
    LET head     == <<Line("title", <<>>, 0), Line("original", <<>>, 0),
                      Line("blank", <<>>, 0), Line("rule", <<>>, 0), Line("blank", <<>>, 0)>>
        hist     == [n \in 1..Len(issue.history) |->
                        Line("history", issue.history[n].createdAt, n)]
        recorded == SelectSeq(hist, LAMBDA l : issue.history[l.n].transition)
        comments == [n \in 1..Len(issue.comments) |->
                        Line("comment", issue.comments[n].createdAt, n)]
        events   == sort_by_ts(recorded \o comments)
    IN  IF events = <<>> THEN head \o <<Line("no_activity", <<>>, 0)>>
        ELSE head \o render_events(events)

MaxEvents == 2

\* the issues build_activity_comment_md is called on
ActivityIssues ==
    LET Streams(S) == UNION {[1..n -> S] : n \in 0..MaxEvents}
    IN  [history : Streams([createdAt : Stamps, transition : BOOLEAN]),
         comments : Streams([createdAt : Stamps])]

\* ---- the filters of the child sub-phases ----
MaxLabels == 3

\* issues by their labels, in order, and their native type
LabelledIssues ==
    [labels : UNION {[1..n -> {"Bug", "Feature Request", "Improvement"}] : n \in 0..MaxLabels},
     issueType : {"", "Bug", "Feature Request", "Story"}]

\* the sub-phases whose filter selects the issue
sub_phases(issue) == {p \in ChildPhases : selected_by(p, issue)}

\* ---- get_media_uuid_for_attachment and the entry of media_map ----
\* Media UUIDs; a URL is the sequence of its path segments, "" is no handle
Uuids == {"U1", "U2", "U3", "U4"}

NoHandle == ""

\* _UUID_RE.search(url): the first UUID in the URL
uuid_search(url) ==
    LET at == {n \in 1..Len(url) : url[n] \in Uuids}
    IN  IF at = {} THEN NoHandle ELSE url[CHOOSE n \in at : \A m \in at : n <= m]

RECURSIVE first_match(_)
\* the loop over [r2.url] + [h.headers.get("Location", "") for h in r2.history]
first_match(candidates) ==
    IF candidates = <<>> THEN NoHandle
    ELSE IF uuid_search(Head(candidates)) # NoHandle THEN uuid_search(Head(candidates))
    ELSE first_match(Tail(candidates))

\* what the function returned and the requests it made, in order
Lookup(uuid, requests) == [uuid |-> uuid, requests |-> requests]

get_media_uuid_for_attachment_last_wins(resp) ==
    LET u1 == IF resp.meta.ok /\ resp.meta.body THEN resp.meta.field.text ELSE NoHandle
        u2 == IF resp.nofollow.ok THEN uuid_search(resp.nofollow.location) ELSE NoHandle
        u3 == IF resp.follow.ok
              THEN first_match(<<resp.follow.url>> \o resp.follow.history)
              ELSE NoHandle
    IN  Lookup(IF u3 # NoHandle THEN u3 ELSE IF u2 # NoHandle THEN u2 ELSE u1,
               <<"meta", "nofollow", "follow">>)

\* resp: how the destination answers each of the three requests; a request
\* that raises (ok = FALSE) is passed over by its except block
get_media_uuid_for_attachment(resp) ==
    LET u1 == IF resp.meta.ok /\ resp.meta.body THEN resp.meta.field.text ELSE NoHandle
        u2 == IF resp.nofollow.ok THEN uuid_search(resp.nofollow.location) ELSE NoHandle
        u3 == IF resp.follow.ok
              THEN first_match(<<resp.follow.url>> \o resp.follow.history)
              ELSE NoHandle
    IN  IF u1 # NoHandle THEN Lookup(u1, <<"meta">>)
        ELSE IF u2 # NoHandle THEN Lookup(u2, <<"meta", "nofollow">>)
        ELSE Lookup(u3, <<"meta", "nofollow", "follow">>)

\* the lines of upload_images_and_build_description after the upload: the
\* lookup, and the entry put in media_map for the image, if any
media_entry(att, resp) ==
    LET found == IF att.id # "" THEN get_media_uuid_for_attachment(resp)
                               ELSE Lookup(NoHandle, <<>>)
    IN  [entry |-> IF found.uuid # NoHandle THEN [kind |-> "file", ref |-> found.uuid]
                   ELSE IF att.content # "" THEN [kind |-> "external", ref |-> att.content]
                   ELSE [kind |-> "omitted", ref |-> ""],
         requests |-> found.requests]

MaxHops == 2

\* an uploaded attachment and the answers to the three requests
MediaLookups ==
    LET Urls  == {<<>>, <<"content", "A1">>, <<"media", "U2", "x">>,
                  <<"cdn", "U3", "U4">>}
        Field == [blanks : {0, 1}, text : {NoHandle, "U1"}]
        Meta  == [ok : {TRUE}, body : {TRUE}, field : Field]
                   \cup [ok : BOOLEAN, body : {FALSE}, field : {[blanks |-> 0, text |-> NoHandle]}]
        NoFol == [ok : {TRUE}, location : Urls] \cup [ok : {FALSE}, location : {<<>>}]
        Hist  == UNION {[1..n -> Urls \ {<<"content", "A1">>}] : n \in 0..MaxHops}
        Fol   == [ok : {TRUE}, url : Urls \ {<<>>}, history : Hist]
                   \cup [ok : {FALSE}, url : {<<>>}, history : {<<>>}]
    IN  [att : [id : {"", "A1"}, content : {"", "J"}],
         resp : [meta : Meta, nofollow : NoFol, follow : Fol]]

\* ---- build_preview_items and apply_selection ----
RECURSIVE build_preview_items(_, _, _, _)
\* the numbered list: for each team its projects, then its issues; num is the
\* number the next entry gets
build_preview_items(mapped_teams, all_issues_by_team, all_projects_by_team, num) ==
    IF mapped_teams = <<>> THEN <<>>
    ELSE LET tname == Head(mapped_teams)
             projs == all_projects_by_team[tname]
             iss   == all_issues_by_team[tname]
             epics == [n \in 1..Len(projs) |->
                         [num |-> num + n - 1, is_project |-> TRUE, item |-> projs[n]]]
             rest  == [n \in 1..Len(iss) |->
                         [num |-> num + Len(projs) + n - 1, is_project |-> FALSE,
                          item |-> iss[n]]]
         IN  epics \o rest
               \o build_preview_items(Tail(mapped_teams), all_issues_by_team,
                                      all_projects_by_team, num + Len(projs) + Len(iss))

apply_selection_as_numbered(preview_items, selected_nums, mapped_teams, all_issues_by_team, all_projects_by_team) ==
    LET ids(proj) == {preview_items[n].item.id :
                        n \in {k \in 1..Len(preview_items) :
                                  /\ preview_items[k].num \in selected_nums.set
                                  /\ preview_items[k].is_project = proj}}
    IN  IF selected_nums.all
        THEN [issues |-> all_issues_by_team, projects |-> all_projects_by_team]
        ELSE [issues   |-> [t \in Range(mapped_teams) |->
                              SelectSeq(all_issues_by_team[t],
                                        LAMBDA i : i.id \in ids(FALSE))],
              projects |-> [t \in Range(mapped_teams) |->
                              SelectSeq(all_projects_by_team[t],
                                        LAMBDA q : q.id \in ids(TRUE))]]

apply_selection(preview_items, selected_nums, mapped_teams, all_issues_by_team, all_projects_by_team) ==
    LET ids(proj) == {preview_items[n].item.id :
                        n \in {k \in 1..Len(preview_items) :
                                  /\ preview_items[k].num \in selected_nums.set
                                  /\ preview_items[k].is_project = proj}}
        selected_issue_ids   == ids(FALSE)
        parents              == {preview_items[n].item.project :
                                   n \in {k \in 1..Len(preview_items) :
                                             /\ ~preview_items[k].is_project
                                             /\ preview_items[k].item.id \in selected_issue_ids
                                             /\ preview_items[k].item.project # None}}
        selected_project_ids == ids(TRUE) \cup parents
    IN  IF selected_nums.all
        THEN [issues |-> all_issues_by_team, projects |-> all_projects_by_team]
        ELSE [issues   |-> [t \in Range(mapped_teams) |->
                              SelectSeq(all_issues_by_team[t],
                                        LAMBDA i : i.id \in selected_issue_ids)],
              projects |-> [t \in Range(mapped_teams) |->
                              SelectSeq(all_projects_by_team[t],
                                        LAMBDA q : q.id \in selected_project_ids)]]

\* two teams, their projects (P2 may belong to both) and issues, the preview
\* list of them, and a selection of its numbers or None
PreviewSelections ==
    LET Item(id, proj) == [id |-> id, project |-> proj]
        Teams     == <<"T1", "T2">>
        Projs     == {[T1 |-> a, T2 |-> b] :
                        a \in {<<>>, <<Item("P1", None)>>,
                               <<Item("P1", None), Item("P2", None)>>},
                        b \in {<<>>, <<Item("P2", None)>>}}
        Iss       == {[T1 |-> <<Item("I1", p1), Item("I2", None)>>,
                       T2 |-> <<Item("I3", p3)>>] : p1, p3 \in {None, "P1", "P2"}}
        Sel(n)    == {Everything} \cup {Selected(S) : S \in SUBSET (1..n)}
    IN  UNION {{[preview_items |-> build_preview_items(Teams, i, q, 1),
                 selected_nums |-> sel, mapped_teams |-> Teams,
                 all_issues_by_team |-> i, all_projects_by_team |-> q] :
                  sel \in Sel(Len(build_preview_items(Teams, i, q, 1)))} :
              i \in Iss, q \in Projs}

\* ---- the call ----
InitFn ==
    /\ RetryIdle /\ PipelineIdle /\ SaveIdle /\ DescIdle
    /\ \/ fn = "resolve_due_date" /\ args \in DueIssues
       \/ fn = "parse_selection" /\ args \in Selections
       \/ fn = "build_activity_comment_md" /\ args \in ActivityIssues
       \/ fn = "sub_phases" /\ args \in LabelledIssues
       \/ fn = "media_entry" /\ args \in MediaLookups
       \/ fn = "apply_selection" /\ args \in PreviewSelections
    /\ ret = Pending

Call_resolve_due_date ==
    /\ fn = "resolve_due_date" /\ ~ret.done
    /\ ret' = Returned(resolve_due_date(args))
    /\ UNCHANGED <<fn, args, rvars, pvars, fs, save_pc, table, before, loaded,
                   description_md, media_map, media_log, desc_adf, desc_pc>>

Call_parse_selection ==
    /\ fn = "parse_selection" /\ ~ret.done
    /\ ret' = parse_selection(args.raw, args.max_num)
    /\ UNCHANGED <<fn, args, rvars, pvars, fs, save_pc, table, before, loaded,
                   description_md, media_map, media_log, desc_adf, desc_pc>>

Call_build_activity_comment_md ==
    /\ fn = "build_activity_comment_md" /\ ~ret.done
    /\ ret' = Returned(build_activity_comment_md(args))
    /\ UNCHANGED <<fn, args, rvars, pvars, fs, save_pc, table, before, loaded,
                   description_md, media_map, media_log, desc_adf, desc_pc>>

Call_sub_phases ==
    /\ fn = "sub_phases" /\ ~ret.done
    /\ ret' = Returned(sub_phases(args))
    /\ UNCHANGED <<fn, args, rvars, pvars, fs, save_pc, table, before, loaded,
                   description_md, media_map, media_log, desc_adf, desc_pc>>

Call_media_entry ==
    /\ fn = "media_entry" /\ ~ret.done
    /\ ret' = Returned(media_entry(args.att, args.resp))
    /\ UNCHANGED <<fn, args, rvars, pvars, fs, save_pc, table, before, loaded,
                   description_md, media_map, media_log, desc_adf, desc_pc>>

Call_apply_selection ==
    /\ fn = "apply_selection" /\ ~ret.done
    /\ ret' = Returned(apply_selection(args.preview_items, args.selected_nums,
                                       args.mapped_teams, args.all_issues_by_team,
                                       args.all_projects_by_team))
    /\ UNCHANGED <<fn, args, rvars, pvars, fs, save_pc, table, before, loaded,
                   description_md, media_map, media_log, desc_adf, desc_pc>>

NextFn ==
    \/ Call_apply_selection
    \/ Call_media_entry
    \/ Call_sub_phases
    \/ Call_resolve_due_date
    \/ Call_parse_selection
    \/ Call_build_activity_comment_md

SpecFn == InitFn /\ [][NextFn]_vars

(***************************************************************************)
(* markdown_to_adf, line by line (SpecMd)                                  *)
(*                                                                         *)
(* A text is the sequence of its characters.  One action is one iteration  *)
(* of the while loop; ret.value holds i and content while the loop runs,   *)
(* and steps, the history of the iterations: the branch taken, the line    *)
(* index before and after, the place of the appended node in content (0    *)
(* when none was appended) and the text handed to the recursive call.      *)
(* The marks _inline_marks finds inside a text are left to SpecDesc; here  *)
(* a text is one plain run.                                                *)
(***************************************************************************)
NL == "\n"

\* the backtick, which a string of this language cannot hold
Tick == "'"

RECURSIVE join(_, _)
\* sep.join(parts)
join(parts, sep) ==
    IF parts = <<>> THEN <<>>
    ELSE IF Len(parts) = 1 THEN parts[1]
    ELSE parts[1] \o <<sep>> \o join(Tail(parts), sep)

\* str.splitlines(): no empty last line after a final line break
splitlines(s) ==
    IF s = <<>> THEN <<>>
    ELSE LET parts == split(s, NL)
         IN  IF parts[Len(parts)] = <<>> THEN SubSeq(parts, 1, Len(parts) - 1) ELSE parts

RECURSIVE lead(_, _)
\* how many times the character c stands at the start of s
lead(s, c) == IF s # <<>> /\ Head(s) = c THEN 1 + lead(Tail(s), c) ELSE 0

RECURSIVE lead_digits(_)
lead_digits(s) == IF s # <<>> /\ IsDigit(Head(s)) THEN 1 + lead_digits(Tail(s)) ELSE 0

\* s[k:]
after(s, k) == SubSeq(s, k + 1, Len(s))

lstrip(s) == after(s, lead(s, " "))

startswith(s, prefix) == Len(s) >= Len(prefix) /\ SubSeq(s, 1, Len(prefix)) = prefix

\* the least index from i on (counted from 0) whose line fails P, n when none
run_end(lines, i, P(_)) ==
    LET stops == {j \in i..(Len(lines) - 1) : ~P(lines[j + 1])}
    IN  IF stops = {} THEN Len(lines)
        ELSE CHOOSE j \in stops : \A k \in stops : j <= k

\* the fence regex, three or more backticks or tildes at the start of the
\* line: the fence character, or the empty string when the line opens no fence
fence_char(line) ==
    IF lead(line, Tick) >= 3 THEN Tick ELSE IF lead(line, "~") >= 3 THEN "~" ELSE ""

closes_fence_of_any_length(line, fc, fl) ==
    LET t == strip(line) IN Len(t) >= 3 /\ \A k \in 1..Len(t) : t[k] = fc

\* the closing regex on lines[i].strip(): fl or more of fc and nothing else
closes_fence(line, fc, fl) ==
    LET t == strip(line) IN Len(t) >= fl /\ \A k \in 1..Len(t) : t[k] = fc

\* the heading regex: one to six hashes, then white space
is_heading(line) ==
    LET k == lead(line, "#") IN k \in 1..6 /\ Len(line) > k /\ line[k + 1] = " "

\* the rule regex: three or more of one of - * _ between white space
is_rule(line) ==
    LET t == strip(line)
    IN  Len(t) >= 3 /\ t[1] \in {"-", "*", "_"} /\ \A k \in 1..Len(t) : t[k] = t[1]

is_quote(line) == startswith(line, <<">", " ">>) \/ line = <<">">>

\* the bullet regex: white space, one of - * +, a space
is_bullet(line) ==
    LET t == lstrip(line) IN Len(t) >= 2 /\ t[1] \in {"-", "*", "+"} /\ t[2] = " "

\* the ordered regex: white space, digits, a dot, white space
is_ordered(line) ==
    LET t == lstrip(line)
        d == lead_digits(t)
    IN  d >= 1 /\ Len(t) >= d + 2 /\ t[d + 1] = "." /\ t[d + 2] = " "

is_blank(line) == strip(line) = <<>>

breaks_paragraph_on_hash(l) ==
    \/ fence_char(l) # "" \/ lead(l, "#") >= 1 \/ is_rule(l)
    \/ startswith(l, <<">", " ">>) \/ is_bullet(l) \/ is_ordered(l)

\* the lines at which the paragraph loop breaks
breaks_paragraph(l) ==
    \/ fence_char(l) # "" \/ is_heading(l) \/ is_rule(l)
    \/ startswith(l, <<">", " ">>) \/ is_bullet(l) \/ is_ordered(l)

inline_text(text) == <<[type |-> "text", text |-> text]>>

\* _paragraph(text)
paragraph(text) == [type |-> "paragraph", content |-> inline_text(text)]

\* _list_item(text)
list_item(text) == [type |-> "listItem", content |-> <<paragraph(text)>>]

RECURSIVE blocks_from(_, _)
\* one iteration of the while loop at line index i (counted from 0): the branch
\* taken, the index it leaves, the nodes it appends, and the text the quote
\* branch converts recursively
block_at(lines, i) ==
    LET n    == Len(lines)
        line == lines[i + 1]
        Out(b, next, nodes, inner) ==
            [branch |-> b, next |-> next, nodes |-> nodes, inner |-> inner]
        fc   == fence_char(line)
        fl   == lead(line, fc)
        lang == strip(after(line, fl))
        shut == {j \in (i + 1)..(n - 1) : closes_fence(lines[j + 1], fc, fl)}
        stop == IF shut = {} THEN n ELSE CHOOSE j \in shut : \A k \in shut : j <= k
        hl   == lead(line, "#")
        qend == run_end(lines, i, is_quote)
        qlines == [k \in 1..(qend - i) |->
                     IF startswith(lines[i + k], <<">", " ">>)
                     THEN after(lines[i + k], 2) ELSE <<>>]
        quoted == join(qlines, NL)
        bend == run_end(lines, i, is_bullet)
        oend == run_end(lines, i, is_ordered)
        Para(l) == ~is_blank(l) /\ ~breaks_paragraph(l)
        pend == run_end(lines, i, Para)
    IN  IF fc # ""
        THEN Out("fence", IF shut = {} THEN n ELSE stop + 1,
                 <<[type |-> "codeBlock",
                    attrs |-> [language |-> IF lang = <<>> THEN <<"t", "e", "x", "t">>
                                            ELSE lang],
                    content |-> inline_text(join(SubSeq(lines, i + 2, stop), NL))]>>,
                 <<>>)
        ELSE IF is_heading(line)
        THEN Out("heading", i + 1,
                 <<[type |-> "heading", attrs |-> [level |-> hl],
                    content |-> inline_text(strip(after(line, hl)))]>>, <<>>)
        ELSE IF is_rule(line)
        THEN Out("rule", i + 1, <<[type |-> "rule"]>>, <<>>)
        ELSE IF is_quote(line)
        THEN Out("quote", qend,
                 <<[type |-> "blockquote",
                    content |-> IF quoted = <<>> THEN <<>>
                                ELSE blocks_from(splitlines(quoted), 0)]>>,
                 quoted)
        ELSE IF is_bullet(line)
        THEN Out("bullet", bend,
                 <<[type |-> "bulletList",
                    content |-> [k \in 1..(bend - i) |->
                                   list_item(after(lstrip(lines[i + k]), 2))]]>>, <<>>)
        ELSE IF is_ordered(line)
        THEN Out("ordered", oend,
                 <<[type |-> "orderedList",
                    content |-> [k \in 1..(oend - i) |->
                                   list_item(lstrip(after(lstrip(lines[i + k]),
                                       lead_digits(lstrip(lines[i + k])) + 1)))]]>>, <<>>)
        ELSE IF is_blank(line)
        THEN Out("blank", i + 1, <<>>, <<>>)
        ELSE Out("paragraph", pend,
                 IF pend > i THEN <<paragraph(join(SubSeq(lines, i + 1, pend), " "))>>
                 ELSE <<>>, <<>>)

\* the while loop from index i on: the nodes it appends to content
blocks_from(lines, i) ==
    IF i >= Len(lines) THEN <<>>
    ELSE block_at(lines, i).nodes \o blocks_from(lines, block_at(lines, i).next)

MaxLines == 3

SomeLines ==
    {<<Tick, Tick, Tick>>,
     <<Tick, Tick, Tick, Tick>>,
     <<"~", "~", "~">>,
     <<Tick, Tick, Tick, "p", "y">>,
     <<" ", Tick, Tick, Tick>>,
     <<Tick, Tick>>,
     <<"#", " ", "a">>,
     <<"-", " ", "a">>,
     <<"1", ".", " ", "a">>,
     <<">", " ", "a">>,
     <<">">>,
     <<">", " ", Tick, Tick, Tick>>,
     <<">", " ", ">", " ", "a">>,
     <<>>,
     <<" ">>,
     <<"a">>,
     <<"-", "-", "-">>,
     <<"#">>}

\* the texts of up to MaxLines of these lines
Markdowns ==
    {join(ls, NL) : ls \in UNION {[1..k -> SomeLines] : k \in 0..MaxLines}}

Branches == {"fence", "heading", "rule", "quote", "bullet", "ordered", "blank", "paragraph"}

InitMd ==
    /\ RetryIdle /\ PipelineIdle /\ SaveIdle /\ DescIdle
    /\ fn = "markdown_to_adf" /\ args \in [markdown : Markdowns]
    /\ ret = [done |-> FALSE, raised |-> FALSE,
              value |-> [i |-> 0, content |-> <<>>, steps |-> <<>>]]

\* one iteration of the while loop, through branch b
Iteration(b) ==
    /\ fn = "markdown_to_adf" /\ ~ret.done
    /\ LET lines == splitlines(args.markdown)
           v     == ret.value
       IN  /\ v.i < Len(lines)
           /\ block_at(lines, v.i).branch = b
           /\ LET blk == block_at(lines, v.i)
              IN  ret' = [ret EXCEPT !.value =
                            [i |-> blk.next,
                             content |-> v.content \o blk.nodes,
                             steps |-> Append(v.steps,
                                 [branch |-> b, from |-> v.i, to |-> blk.next,
                                  node |-> IF blk.nodes = <<>> THEN 0
                                           ELSE Len(v.content) + 1,
                                  inner |-> blk.inner])]]
    /\ UNCHANGED <<fn, args, rvars, pvars, fs, save_pc, table, before, loaded,
                   description_md, media_map, media_log, desc_adf, desc_pc>>

Fence == Iteration("fence")

Heading == Iteration("heading")

Rule == Iteration("rule")

Quote == Iteration("quote")

BulletList == Iteration("bullet")

OrderedList == Iteration("ordered")

BlankLine == Iteration("blank")

Paragraph == Iteration("paragraph")

\* i = n (or the text is empty): the document is returned
ReturnDoc ==
    /\ fn = "markdown_to_adf" /\ ~ret.done
    /\ ret.value.i >= Len(splitlines(args.markdown))
    /\ ret' = [ret EXCEPT !.done = TRUE]
    /\ UNCHANGED <<fn, args, rvars, pvars, fs, save_pc, table, before, loaded,
                   description_md, media_map, media_log, desc_adf, desc_pc>>

NextMd ==
    \/ Fence \/ Heading \/ Rule \/ Quote \/ BulletList \/ OrderedList
    \/ BlankLine \/ Paragraph \/ ReturnDoc

SpecMd == InitMd /\ [][NextMd]_vars

(***************************************************************************)
(* Properties of the block parser (checked under SpecMd)                   *)
(***************************************************************************)
\* whether the fence iterations of a finished conversion did what Closing says:
\* the opening line has k >= 3 fence characters c; the block ends at the first
\* later line that is Closing for c and k, or at the end of the text; the one
\* node appended holds the lines in between as they are, joined by line breaks,
\* under the language tag of the opening line ("text" when it has none); and
\* every line the loop meets that opens with three backticks or tildes is
\* handled so
FencesCloseBy(Closing(_, _, _)) ==
    LET lines == splitlines(args.markdown)
        n     == Len(lines)
        v     == ret.value
    IN  \A s \in 1..Len(v.steps) :
            LET stp   == v.steps[s]
                open  == lines[stp.from + 1]
                c     == open[1]
                k     == lead(open, c)
                tag   == strip(after(open, k))
                ends  == {j \in (stp.from + 1)..(n - 1) : Closing(lines[j + 1], c, k)}
                close == IF ends = {} THEN n ELSE CHOOSE j \in ends : \A e \in ends : j <= e
            IN  /\ (lead(open, Tick) >= 3 \/ lead(open, "~") >= 3) <=> stp.branch = "fence"
                /\ stp.branch = "fence" =>
                     /\ k >= 3
                     /\ stp.to = (IF ends = {} THEN n ELSE close + 1)
                     /\ stp.node # 0
                     /\ v.content[stp.node] =
                          [type |-> "codeBlock",
                           attrs |-> [language |-> IF tag = <<>> THEN <<"t", "e", "x", "t">>
                                                   ELSE tag],
                           content |-> <<[type |-> "text",
                                          text |-> join(SubSeq(lines, stp.from + 2, close),
                                                        NL)]>>]

ExactFenceLine(l, c, k) == Len(l) >= k /\ \A x \in 1..Len(l) : l[x] = c

FenceLineInSpaces(l, c, k) == ExactFenceLine(strip(l), c, k)

\* C38 as stated: a code block opened by n >= 3 backticks or tildes is closed
\* only by a later line that consists of at least n of the same character, and
\* otherwise runs to the end of the text; the lines in between are kept as they
\* are in one codeBlock node with the opening line's language tag.
C38_ClosedByExactFenceLine ==
    (fn = "markdown_to_adf" /\ ret.done) => FencesCloseBy(ExactFenceLine)

\* C38, amended: the same, where the closing line is one that consists of at
\* least n of the same character once the white space around it is removed.
C38_CodeFence ==
    (fn = "markdown_to_adf" /\ ret.done) => FencesCloseBy(FenceLineInSpaces)

\* a fence with the tag py, a line that looks like a heading, and an indented
\* closing fence: one codeBlock node holding the heading line
C38_Witness ==
    /\ fn = "markdown_to_adf" /\ ret.done
    /\ splitlines(args.markdown) = <<<<Tick, Tick, Tick, "p", "y">>, <<"#", " ", "a">>, <<" ", Tick, Tick, Tick>>>>
    /\ Len(ret.value.steps) = 1 /\ ret.value.steps[1].branch = "fence"
    /\ ret.value.content =
         <<[type |-> "codeBlock", attrs |-> [language |-> <<"p", "y">>],
            content |-> <<[type |-> "text", text |-> <<"#", " ", "a">>]>>]>>

CreatedFor(s) == {e \in created : e[1] = s}

CreatedInRun(s) == {e \in created : e[1] = s /\ e[3] = run}

CreatedThisRun == {e[2] : e \in {x \in created : x[3] = run}}

\* C1: after a run that completed with every creation succeeding, with no
\* entity deleted and every probe answered truthfully, the next run issues no
\* create call and leaves the mapping, in memory and in the file, as it was.
C1_SecondRunCreatesNothing ==
    (prev.clean /\ wrong_probes = 0 /\ deletes = 0) =>
        /\ calls = 0
        /\ disk = prev.disk
        /\ ph \notin {"aborted", "fatal"} => mapping = prev.disk

\* a second run that went through all phases after a clean first run
C1_Witness ==
    /\ run = 2 /\ ph = "done"
    /\ prev.clean /\ wrong_probes = 0 /\ deletes = 0
    /\ DOMAIN mapping = SourceKeys
    /\ \A s \in SourceKeys : CreatedFor(s) # {}

\* C2: an entry of the mapping file whose destination entity is alive stays in
\* the file with the same key, at every step and whatever the probe's call
\* came back with.
C2_LiveEntryNeverEvicted ==
    [][\A k \in DOMAIN disk :
          disk[k] \in alive => (k \in DOMAIN disk' /\ disk'[k] = disk[k])]_vars

\* C3: for a source entity whose mapped destination entity was gone when the
\* run started, the run creates at most one replacement, and exactly one,
\* recorded in the mapping, when the run completes with no creation failed.
C3_ExactlyOneReplacement ==
    \A s \in stale0 :
        /\ Cardinality(CreatedInRun(s)) <= 1
        /\ (ph = "done" /\ clean) =>
              /\ Cardinality(CreatedInRun(s)) = 1
              /\ s \in DOMAIN disk
              /\ <<s, disk[s], run>> \in created
              /\ mapping = disk

C5_NoDuplicateAfterInterrupt ==
    (wrong_probes = 0 /\ deletes = 0) =>
        \A s \in SourceKeys : Cardinality(CreatedFor(s)) <= 1

\* C6: an attachment upload, an activity comment or a relation link that
\* succeeded for a destination entity in one run is not performed again for
\* the same entity in a later run.
C6_LatePhasesNotRepeated ==
    \A e1, e2 \in log :
        ( /\ e1.kind \in {"upload", "comment", "link"}
          /\ e1.kind = e2.kind /\ e1.key = e2.key
          /\ e1.other = e2.other /\ e1.lt = e2.lt ) => e1.run = e2.run

(***************************************************************************)
(* Properties of the pipeline: creation, ordering, failures, links, backlog*)
(* (checked under Spec)                                                    *)
(***************************************************************************)
\* C14: a create call that fails with an error of a repairable shape fails its
\* item for good only once the retry loop is exhausted, for an epic as for a
\* child.
C14_EveryCreationRetried ==
    [][LET old == report.failed_issues
           new == report'.failed_issues
       IN  ( /\ Len(new) = Len(old) + 1
             /\ new[Len(new)].what = "create"
             /\ new[Len(new)].reason = "repairable" ) => LoopExhausted(cpass)]_vars

\* the place the claimed order gives each phase
ClaimedRank(p) ==
    CASE p = "epics"    -> 1
      [] p = "bugs"     -> 2
      [] p = "features" -> 3
      [] p = "stories"  -> 4
      [] p = "backlog"  -> 5
      [] p = "attach"   -> 6
      [] p = "comments" -> 7
      [] p = "links"    -> 8
      [] OTHER          -> 9

EpicMappingKeys == {mapping_key(Projects[n]) : n \in 1..Len(Projects)}

C16_ParentConfirmedBeforeChild ==
    (InCreation /\ ~is_epic /\ st = "create") =>
        LET f == build_jira_fields(item)
            proj == Issue(item).project
        IN  "parent" \in DOMAIN f =>
                /\ proj # None
                /\ mapping_key(proj) \in DOMAIN mapping
                /\ mapping[mapping_key(proj)] = f["parent"].key
                /\ <<proj, f["parent"].key>> \in confirmed

\* a child is about to be created under an epic that an earlier, interrupted
\* run created and that this run found alive by the probe
C16_Witness ==
    /\ run = 2
    /\ InCreation /\ ~is_epic /\ st = "create"
    /\ "parent" \in DOMAIN build_jira_fields(item)
    /\ CreatedInRun(mapping_key(Issue(item).project)) = {}
    /\ <<Issue(item).project, build_jira_fields(item)["parent"].key>> \in confirmed

TallySum(t, p) == t[p].created + t[p].skipped + t[p].failed

\* the counters of the child sub-phases when the process is at item n of phase q
TallyOK(q, n, t) ==
    \A p \in ChildPhases :
        q \notin {"aborted", "fatal"} =>
            TallySum(t, p) =
                IF q = p THEN n - 1
                ELSE IF ClaimedRank(q) > ClaimedRank(p) THEN Len(Items(p))
                ELSE 0

\* C17: a step in which a destination call fails for an item goes on to the
\* next item of the same phase (to the next phase after the last item), and in
\* each child sub-phase every item visited so far, and every item of the list
\* once the sub-phase is over, was counted as exactly one of created, skipped
\* or failed.
C17_FailureIsolation ==
    [][/\ TallyOK(ph, ix, tally)
       /\ TallyOK(ph', ix', tally')
       /\ failures' = failures + 1 =>
             IF ix < Len(Items(ph))
             THEN ph' = ph /\ ix' = ix + 1
             ELSE ClaimedRank(ph') > ClaimedRank(ph) /\ ix' = 1
      ]_vars

\* a run went through all phases although the first item of a two-item
\* sub-phase had failed, and the second item of that sub-phase was created
C17_Witness ==
    /\ ph = "done"
    /\ Len(Items("bugs")) = 2
    /\ tally["bugs"].failed = 1 /\ tally["bugs"].created = 1
    /\ Len(report.failed_issues) = 1
    /\ report.failed_issues[1].id = Items("bugs")[1]

IsPrefix(a, b) == Len(a) <= Len(b) /\ \A n \in 1..Len(a) : b[n] = a[n]

\* C18: every step in which the creation of an epic or a child, a description
\* update, an attachment upload, a comment post or a link creation fails adds
\* an entry to one failure list of the report (for a creation or description
\* update, one naming the item), and within a run the lists only grow at the
\* end.
C18_EveryFailureRecorded ==
    [][/\ (failures' = failures + 1 /\ ph # "backlog") =>
             /\ \E l \in DOMAIN report : Len(report'[l]) = Len(report[l]) + 1
             /\ ph \in CreationPhases =>
                   /\ Len(report'.failed_issues) = Len(report.failed_issues) + 1
                   /\ report'.failed_issues[Len(report'.failed_issues)].id = mkey
       /\ (run' = run /\ ph' # "aborted") =>
             \A l \in DOMAIN report : IsPrefix(report[l], report'[l])
      ]_vars

SamePair(a, b) ==
    /\ a.type = b.type
    /\ {a.outwardIssue, a.inwardIssue} = {b.outwardIssue, b.inwardIssue}

\* the source issue that blocks the other one, and the one that is blocked
Blocker == IF rel12 = "blocks" THEN "I1" ELSE "I2"

Blocked == IF rel12 = "blocks" THEN "I2" ELSE "I1"

\* C19: no two link-creation calls of a run have the same link type and the
\* same unordered pair of keys; and when both issues of the reciprocal
\* blocks / blocked_by records are mapped, the finished run has made exactly one
\* link call, of type Blocks, outward end the blocker's key and inward end the
\* blocked issue's key, whether the blocker or the blocked issue comes first.
C19_RelationDedup ==
    /\ \A i, j \in 1..Len(link_calls) :
          SamePair(link_calls[i], link_calls[j]) => i = j
    /\ (ph = "done" /\ {"I1", "I2"} \subseteq DOMAIN mapping) =>
          /\ Len(link_calls) = 1
          /\ link_calls[1] = [type |-> "Blocks",
                              outwardIssue |-> mapping[Blocker],
                              inwardIssue |-> mapping[Blocked]]

\* the blocked issue was visited first, its link was created, and the
\* blocker's reciprocal record was skipped
C19_Witness ==
    /\ ph = "done"
    /\ Blocked = Issues[1]
    /\ Len(link_calls) = 1
    /\ link_calls[1].outwardIssue = mapping[Blocker]
    /\ \E e \in log : e.kind = "link" /\ e.run = run /\ e.key = mapping[Blocker]

\* C20: no key handed to the backlog move is the destination key of an epic.
C20_BacklogOnlyChildren ==
    \A e \in created : e[1] \in EpicMappingKeys => e[2] \notin moved

(***************************************************************************)
(* Properties of the pipeline: descriptions, comments, mapping entries     *)
(* (checked under Spec)                                                    *)
(***************************************************************************)
\* no payload about to be sent to a create call holds a description; every
\* entity has at most one description update in the run, and exactly one as
\* soon as the run has gone past its item (the item of key k is still open
\* between the create call and the description update)
BodyAfterCreation ==
    LET DescCalls(k) ==
            {n \in 1..Len(issued) : issued[n].call = "update_issue" /\ issued[n].key = k}
        ItemOpen(k) ==
            /\ InCreation /\ st \in {"persist", "desc"}
            /\ IF st = "persist" THEN inflight = k
               ELSE mkey \in DOMAIN mapping /\ mapping[mkey] = k
    IN  /\ (InCreation /\ st = "create") => "description" \notin DOMAIN create_fields
        /\ \A k \in 1..MaxKeys : Cardinality(DescCalls(k)) <= 1
        /\ ph # "aborted" =>
              \A e \in created :
                  (e[3] = run /\ ~ItemOpen(e[2])) => Cardinality(DescCalls(e[2])) = 1

\* C21: the payload of a create call never holds the description; a
\* description update is issued only for the entity the current item has just
\* created, once its mapping entry is in the mapping file; every entity created
\* in the run gets exactly one description update once the run is past its
\* item; and a description update that fails changes neither the mapping nor
\* the file, and the child counts as created with no failed-creation entry.
C21_BodyAfterCreation ==
    [][/\ BodyAfterCreation
       /\ BodyAfterCreation'
       /\ \A n \in (Len(issued) + 1)..Len(issued') :
             issued'[n].call = "update_issue" =>
                 LET k == issued'[n].key
                 IN  /\ Len(issued') = Len(issued) + 1
                     /\ <<mkey, k, run>> \in created
                     /\ mkey \in DOMAIN mapping /\ mapping[mkey] = k
                     /\ mkey \in DOMAIN disk /\ disk[mkey] = k
                     /\ inflight = 0
                     /\ ~issued'[n].ok =>
                           /\ mapping' = mapping /\ disk' = disk
                           /\ ~is_epic =>
                                 /\ tally'[ph].created = tally[ph].created + 1
                                 /\ tally'[ph].failed = tally[ph].failed
                                 /\ report' = report
      ]_vars

\* a run went through all phases after the description update of a child it
\* had created failed: the child is mapped and counted as created
C21_Witness ==
    /\ ph = "done"
    /\ \E n \in 1..Len(issued) :
          /\ issued[n].call = "update_issue" /\ ~issued[n].ok
          /\ issued[n].of \in DOMAIN mapping
          /\ mapping[issued[n].of] = issued[n].key
          /\ issued[n].of \notin EpicMappingKeys
          /\ \E p \in ChildPhases : tally[p].created >= 1
    /\ report.failed_issues = <<>>

\* C25: in a run whose verification of the Linear or of the Jira credential
\* failed, the process has stopped, no create, update, upload, comment, link or
\* backlog call was made, nothing was reported, and the mapping file is as the
\* previous run left it.
C25_AuthFailureFatal ==
    auth # "ok" =>
        /\ ph = "fatal" /\ ~Running
        /\ calls = 0 /\ CreatedThisRun = {}
        /\ issued = <<>> /\ link_calls = <<>> /\ moved = {}
        /\ \A e \in log : e.run # run
        /\ report = NoReport
        /\ mapping = EmptyDict
        /\ disk = prev.disk

\* the verification of the Jira credential failed in a run that followed one
\* which had created entities and written the mapping file
C25_Witness ==
    /\ auth = "jira_failed" /\ run = 2
    /\ disk # EmptyDict /\ created # {}
    /\ disk = prev.disk

\* C26: an activity comment is posted only on the destination of a mapping
\* entry of a source entity that has history or comments, an entity with
\* neither gets none, and no entity gets two in one run.
C26_ActivityComments ==
    [][ /\ \A n \in (Len(issued) + 1)..Len(issued') :
              issued'[n].call = "add_comment" =>
                  /\ ph = "comments" /\ issued'[n].of = item
                  /\ item \in DOMAIN mapping /\ issued'[n].key = mapping[item]
                  /\ Issue(item).activity
        /\ \A n, m \in 1..Len(issued') :
              (/\ issued'[n].call = "add_comment" /\ issued'[m].call = "add_comment"
               /\ issued'[n].of = issued'[m].of) => n = m
        /\ \A n \in 1..Len(issued') :
              issued'[n].call = "add_comment" => Issue(issued'[n].of).activity
      ]_vars

\* the comments phase is over: the comment of I1 was posted, and I2, mapped
\* but with neither history nor comments, was passed over
C26_Witness ==
    /\ ph \in {"links", "done"}
    /\ {"I1", "I2"} \subseteq DOMAIN mapping
    /\ \E n \in 1..Len(issued) : issued[n] = Call("add_comment", mapping["I1"], "I1", TRUE)
    /\ \A n \in 1..Len(issued) : issued[n].of # "I2" \/ issued[n].call # "add_comment"

\* C30: every entry of the mapping dict and of the mapping file holds the key
\* a successful create call returned for that source entity; an entry added in
\* a run holds the key of a create call of that run; and an item whose creation
\* fails, at the field build or at the create call, leaves the dict and the
\* file as they were.
C30_EntriesFromCreations ==
    [][ /\ \A k \in DOMAIN mapping' :
              \E e \in created' : e[1] = k /\ e[2] = mapping'[k]
        /\ \A k \in DOMAIN disk' :
              \E e \in created' : e[1] = k /\ e[2] = disk'[k]
        /\ run' = run =>
              \A k \in DOMAIN mapping' :
                  (k \notin DOMAIN mapping \/ mapping[k] # mapping'[k]) =>
                      <<k, mapping'[k], run>> \in created
        /\ LET old == report.failed_issues
               new == report'.failed_issues
           IN  ( /\ Len(new) = Len(old) + 1
                 /\ new[Len(new)].what \in {"create", "fields"} ) =>
                     mapping' = mapping /\ disk' = disk
      ]_vars

\* a run that created I1 and saved its entry, and in which the field build of
\* I2 failed: I2 has no entry in the dict or in the file
C30_Witness ==
    /\ ph = "done"
    /\ \E n \in 1..Len(report.failed_issues) :
          report.failed_issues[n] = [id |-> "I2", what |-> "fields", reason |-> "exception"]
    /\ "I1" \in DOMAIN mapping /\ <<"I1", mapping["I1"], run>> \in created
    /\ "I2" \notin DOMAIN mapping /\ "I2" \notin DOMAIN disk
    /\ disk = mapping

\* C31: when a run has completed, every source entity with a mapping entry
\* has had a description update of its destination entity attempted, in this
\* run or in an earlier one.
C31_DescriptionAttempted ==
    ph = "done" =>
        \A k \in DOMAIN mapping :
            \E e \in log : e.kind = "desc" /\ e.key = mapping[k]

\* C32: a child whose source project is one of the projects migrated is
\* created from a payload that carries a hierarchy link to the epic of that
\* project.
C32_ChildLinkedToEpic ==
    [][ ( /\ InCreation /\ ~is_epic /\ st = "create" /\ st' = "persist"
          /\ \E n \in 1..Len(Projects) : Projects[n] = Issue(item).project ) =>
              /\ "parent" \in DOMAIN create_fields
              /\ Issue(item).project \in DOMAIN epic_map
              /\ create_fields["parent"].key = epic_map[Issue(item).project]
      ]_vars

\* C33: an issue whose creation has failed in this run is not taken up by
\* another child sub-phase of the same run: when a sub-phase is about to create
\* an issue, the run's failed-creation list has no entry for it.
C33_OneSubPhasePerIssue ==
    (InCreation /\ ~is_epic /\ st = "create") =>
        \A n \in 1..Len(report.failed_issues) :
            report.failed_issues[n].id = item =>
                report.failed_issues[n].what \notin {"create", "fields"}

\* C34, in the pipeline: when a run has completed, every issue has a mapping
\* entry (created, or skipped as already migrated) or an entry in the
\* failed-creation list.
C34_EveryIssueAccounted ==
    ph = "done" =>
        \A n \in 1..Len(Issues) :
            \/ Issues[n] \in DOMAIN mapping
            \/ \E k \in 1..Len(report.failed_issues) :
                  /\ report.failed_issues[k].id = Issues[n]
                  /\ report.failed_issues[k].what \in {"create", "fields"}

(***************************************************************************)
(* Properties of save_mapping (checked under SpecSave)                     *)
(***************************************************************************)
\* C22: at every step of save_mapping, a crash included, load_mapping on the
\* file system gives the complete table of before the save or the complete new
\* table: the old one until os.replace has run, the new one after; and that is
\* what the next run loads.
C22_AtomicReplace ==
    /\ load_mapping_file(fs) \in {before, table}
    /\ save_pc \in {"open", "dump", "replace",
                    "crashed_open", "crashed_dump", "crashed_replace"} =>
          load_mapping_file(fs) = before
    /\ save_pc = "done" => load_mapping_file(fs) = table
    /\ fs["map"].exists => json_load(fs["map"].text).ok
    /\ loaded.done => loaded.value \in {before, table}

\* the process died while the temporary file held part of the new table, and
\* the next run loaded the old table, which is neither empty nor the new one
C22_Witness ==
    /\ save_pc = "crashed_dump"
    /\ Len(fs["tmp"].text) \in 1..(Len(json_dump(table)) - 1)
    /\ loaded.done /\ loaded.value = before
    /\ before # EmptyDict /\ before # table /\ table # EmptyDict

(***************************************************************************)
(* Properties of the description step (checked under SpecDesc)             *)
(***************************************************************************)
\* C23: once the document is built, no image of the body whose URL has no
\* entry in media_map has that URL as the media URL or the link target of any
\* node of the document.
C23_AntiLeakage ==
    desc_pc = "built" =>
        \A n \in 1..Len(description_md) :
            LET p == description_md[n]
            IN  (p.k = "image" /\ p.url \notin DOMAIN media_map) =>
                    \A b \in 1..Len(desc_adf.content) :
                        \A c \in 1..Len(desc_adf.content[b].content) :
                            LET node == desc_adf.content[b].content[c]
                            IN  node.kind \in {"link", "external"} => node.ref # p.url

\* C24: whatever way the download, the upload or the media lookup of each
\* image ends, no exception leaves upload_images_and_build_description; the
\* mapping, the mapping file and the created entity stay as they are, nothing
\* is reported or counted while the images are handled, and the item ends with
\* the description update of its entity attempted, the child counted as created
\* and no failed-creation entry added.
C24_MediaNeverFatal ==
    [][/\ desc_pc' # "raised"
       /\ mapping' = mapping /\ disk' = disk /\ created' = created /\ alive' = alive
       /\ st' = "desc" => (report' = report /\ tally' = tally /\ issued' = issued)
       /\ (st = "desc" /\ st' # "desc") =>
             /\ desc_pc = "built"
             /\ Len(issued') = Len(issued) + 1
             /\ issued'[Len(issued')].call = "update_issue"
             /\ issued'[Len(issued')].key = mapping[mkey]
             /\ \A n \in 1..Len(report'.failed_issues) :
                   report'.failed_issues[n].what # "create"
             /\ (~is_epic \/ issued'[Len(issued')].ok) => report' = report
             /\ ~is_epic =>
                   /\ tally'[ph].created = tally[ph].created + 1
                   /\ tally'[ph].failed = tally[ph].failed
      ]_vars

\* the three images of a child's body ended in a failed download, an upload
\* error and an upload with no media handle; the description, with no image,
\* was sent and the child counted as created
C24_Witness ==
    /\ ph = "bugs" /\ ix = 2 /\ st = "check"
    /\ media_log = <<"download_failed", "upload_raised", "no_handle">>
    /\ media_map = EmptyDict
    /\ desc_pc = "built" /\ desc_adf = Doc(<<>>)
    /\ issued[Len(issued)] = Call("update_issue", mapping["I1"], "I1", TRUE)
    /\ tally["bugs"].created = 1
    /\ report = NoReport

(***************************************************************************)
(* Properties of the pure functions (checked under SpecFn)                 *)
(***************************************************************************)
\* C27: the text build_activity_comment_md returns shows every history event
\* that has a recorded transition and every comment, once each and nothing
\* else, in non-decreasing order of their timestamps, and of two events with
\* the same timestamp a comment never comes before a history event.
C27_ActivityChronology ==
    (fn = "build_activity_comment_md" /\ ret.done) =>
        LET shown   == SelectSeq(ret.value, LAMBDA l : l.kind \in {"history", "comment"})
            time(l) == digits_value(l.ts, 0)
            kept    == {n \in 1..Len(args.history) : args.history[n].transition}
        IN  /\ Len(shown) = Cardinality(kept) + Len(args.comments)
            /\ \A n \in kept : \E k \in 1..Len(shown) :
                  shown[k] = Line("history", args.history[n].createdAt, n)
            /\ \A n \in 1..Len(args.comments) : \E k \in 1..Len(shown) :
                  shown[k] = Line("comment", args.comments[n].createdAt, n)
            /\ \A j, k \in 1..Len(shown) : j < k => time(shown[j]) <= time(shown[k])
            /\ \A j, k \in 1..Len(shown) :
                  (j < k /\ shown[j].ts = shown[k].ts) =>
                      ~(shown[j].kind = "comment" /\ shown[k].kind = "history")

\* the text of an issue with a comment older than one of its recorded history
\* events, a comment of the same timestamp as one, and a history event with no
\* recorded transition
C27_Witness ==
    /\ fn = "build_activity_comment_md" /\ ret.done
    /\ \E h \in 1..Len(args.history), c \in 1..Len(args.comments) :
          /\ args.history[h].transition
          /\ digits_value(args.comments[c].createdAt, 0)
                < digits_value(args.history[h].createdAt, 0)
    /\ \E h \in 1..Len(args.history), c \in 1..Len(args.comments) :
          /\ args.history[h].transition
          /\ args.comments[c].createdAt = args.history[h].createdAt
    /\ \E h \in 1..Len(args.history) : ~args.history[h].transition

C29_SelectionParsing ==
    (fn = "parse_selection" /\ ret.done) =>
        LET N          == args.max_num
            l          == args.listed
            Valid(p)   == IF p.range
                          THEN p.lo \in 1..N /\ p.hi \in 1..N /\ p.lo <= p.hi
                          ELSE p.lo \in 1..N
            Denoted(p) == IF p.range THEN (p.lo)..(p.hi) ELSE {p.lo}
        IN  IF l = <<>> THEN ~ret.raised /\ ret.value = Everything
            ELSE IF \A n \in 1..Len(l) : Valid(l[n])
                 THEN /\ ~ret.raised
                      /\ ret.value = Selected(UNION {Denoted(l[n]) : n \in 1..Len(l)})
                 ELSE ret.raised

\* " 1 , 2 - 10 " against a maximum of 10: every number from 1 to 10
C29_Witness ==
    /\ fn = "parse_selection" /\ ret.done
    /\ args.raw = <<" ", "1", " ", ",", " ", "2", " ", "-", " ", "1", "0", " ">>
    /\ args.max_num = MaxNum
    /\ ~ret.raised /\ ret.value = Selected(1..MaxNum)

\* C34: whatever the labels of an issue, their order and its native type, at
\* least one of the three sub-phase filters selects it.
C34_SubPhaseCoverage ==
    (fn = "sub_phases" /\ ret.done) => ret.value # {}

\* an issue labelled 'Feature Request' then 'Bug', of native type 'Bug': only
\* the feature-request filter selects it
C34_Witness ==
    /\ fn = "sub_phases" /\ ret.done
    /\ args = [labels |-> <<"Feature Request", "Bug">>, issueType |-> "Bug"]
    /\ ret.value = {"features"}

\* C36: the handle is that of the first of the three strategies (metadata
\* field, redirect target, final URL or redirect chain) that yields one, a
\* strategy whose request fails is passed over, and no request is made after
\* the strategy that matched; the image gets an inline entry with the handle
\* if there is one, an external entry if there is none but the attachment has
\* a content URL, and no entry otherwise.
C36_MediaHandleOrder ==
    (fn = "media_entry" /\ ret.done) =>
        LET r       == args.resp
            HasUuid(url) == \E n \in 1..Len(url) : url[n] \in Uuids
            yields1 == r.meta.ok /\ r.meta.body /\ r.meta.field.text # ""
            yields2 == r.nofollow.ok /\ HasUuid(r.nofollow.location)
            yields3 == r.follow.ok /\ ( \/ HasUuid(r.follow.url)
                                        \/ \E h \in 1..Len(r.follow.history) :
                                              HasUuid(r.follow.history[h]) )
            asked   == args.att.id # ""
            handle  == asked /\ (yields1 \/ yields2 \/ yields3)
            e       == ret.value.entry
        IN  /\ ret.value.requests =
                  (IF ~asked THEN <<>>
                   ELSE IF yields1 THEN <<"meta">>
                   ELSE IF yields2 THEN <<"meta", "nofollow">>
                   ELSE <<"meta", "nofollow", "follow">>)
            /\ handle => /\ e.kind = "file"
                         /\ yields1 => e.ref = r.meta.field.text
                         /\ (~yields1 /\ yields2) =>
                               e.ref \in {r.nofollow.location[n] :
                                            n \in 1..Len(r.nofollow.location)}
                         /\ (~yields1 /\ ~yields2) =>
                               e.ref \in {r.follow.url[n] : n \in 1..Len(r.follow.url)}
                                 \cup UNION {{r.follow.history[h][n] :
                                                n \in 1..Len(r.follow.history[h])} :
                                             h \in 1..Len(r.follow.history)}
                         /\ e.ref \in Uuids
            /\ (~handle /\ args.att.content # "") =>
                  e = [kind |-> "external", ref |-> args.att.content]
            /\ (~handle /\ args.att.content = "") => e.kind = "omitted"

\* the metadata request failed, the redirect target held no UUID, and the
\* handle came from the redirect chain of the third request, although the
\* attachment has a content URL
C36_Witness ==
    /\ fn = "media_entry" /\ ret.done
    /\ ~args.resp.meta.ok
    /\ args.resp.nofollow = [ok |-> TRUE, location |-> <<"content", "A1">>]
    /\ args.resp.follow.ok /\ args.resp.follow.url = <<"content", "A1">>
    /\ args.resp.follow.history = <<<<>>, <<"media", "U2", "x">>>>
    /\ args.att = [id |-> "A1", content |-> "J"]
    /\ ret.value = [entry |-> [kind |-> "file", ref |-> "U2"],
                    requests |-> <<"meta", "nofollow", "follow">>]

\* C37: for a selection of numbers, the issues apply_selection returns for a
\* team are exactly the team's issues whose number was selected, and the
\* projects it returns for the team include the project of every selected
\* issue of the team that is among the team's projects; for None it returns
\* the two collections as they are.
C37_SelectionKeepsParents ==
    (fn = "apply_selection" /\ ret.done) =>
        LET pv          == args.preview_items
            picked(i)   == \E n \in 1..Len(pv) :
                              /\ ~pv[n].is_project /\ pv[n].item = i
                              /\ pv[n].num \in args.selected_nums.set
            In(seq, x)  == \E n \in 1..Len(seq) : seq[n] = x
        IN  IF args.selected_nums.all
            THEN ret.value = [issues |-> args.all_issues_by_team,
                              projects |-> args.all_projects_by_team]
            ELSE \A t \in Range(args.mapped_teams) :
                    /\ \A n \in 1..Len(args.all_issues_by_team[t]) :
                          LET i == args.all_issues_by_team[t][n]
                          IN  /\ picked(i) <=> In(ret.value.issues[t], i)
                              /\ picked(i) =>
                                    \A k \in 1..Len(args.all_projects_by_team[t]) :
                                        args.all_projects_by_team[t][k].id = i.project =>
                                            In(ret.value.projects[t],
                                               args.all_projects_by_team[t][k])
                    /\ \A n \in 1..Len(ret.value.issues[t]) :
                          In(args.all_issues_by_team[t], ret.value.issues[t][n])

\* only issue I1 of project P1 was selected, by its number 3: I1 and P1 are
\* returned for its team, and nothing else
C37_Witness ==
    /\ fn = "apply_selection" /\ ret.done
    /\ args.selected_nums = Selected({3})
    /\ Len(args.all_projects_by_team["T1"]) = 2
    /\ args.all_issues_by_team["T1"][1].project = "P1"
    /\ Len(ret.value.issues["T1"]) = 1 /\ ret.value.issues["T1"][1].id = "I1"
    /\ Len(ret.value.projects["T1"]) = 1 /\ ret.value.projects["T1"][1].id = "P1"
    /\ ret.value.issues["T2"] = <<>>

(***************************************************************************)
(* Properties of _try_create_issue (checked under SpecRetry)               *)
(***************************************************************************)
Failed(i) == ~got[i].ok

\* C7: the dictionary the caller passed in holds the same keys and values at
\* every point of the call and after it, whatever the errors and the outcome.
C7_CallerPayloadNeverMutated == heap[fields] = fields0

\* a finished call in which a repair changed the working copy
C7_Witness ==
    /\ rpc = "done"
    /\ Len(sent) >= 2
    /\ heap[current] # fields0
    /\ outcome \in {"returned", "raised"}

\* C8: at most 4 create calls per invocation; a finished invocation has either
\* returned the result of a successful create or raised an error; after 4
\* failed attempts it has raised the error of the 4th attempt.
C8_BoundedRetry ==
    /\ Len(sent) <= 4
    /\ Len(got) = Len(sent)
    /\ rpc = "done" =>
          /\ outcome \in {"returned", "raised"}
          /\ outcome = "returned" => got[Len(got)].ok
          /\ outcome = "raised" => Failed(Len(got)) /\ raised = got[Len(got)]
    /\ (Len(got) = 4 /\ \A i \in 1..4 : Failed(i)) =>
          /\ rpc = "done"
          /\ outcome = "raised"
          /\ raised = got[4]
          /\ raised.attempt = 4

\* four attempts failed with repairable errors and the loop gave up
C8_Witness ==
    /\ Len(got) = 4
    /\ \A i \in 1..4 : Failed(i) /\ Branch(got[i].msg) # "unrecoverable"
    /\ outcome = "raised"

\* C9: an attempt that fails with an error matching no known signature is the
\* last create call of the invocation, and that same error is raised.
C9_UnrecoverableRaisedAtOnce ==
    \A i \in 1..Len(got) :
        (Failed(i) /\ Branch(got[i].msg) = "unrecoverable") =>
            /\ i = Len(sent)
            /\ rpc = "done"
            /\ outcome = "raised"
            /\ raised = got[i]

\* an unrecoverable error arrived while attempts were still left
C9_Witness ==
    /\ Len(got) \in 1..3
    /\ Failed(Len(got))
    /\ Branch(got[Len(got)].msg) = "unrecoverable"
    /\ outcome = "raised"

\* C10 as stated: the payload of a retry always differs from the payload of
\* the attempt that just failed.
C10_NeverSamePayloadTwice ==
    \A i \in 1..(Len(sent) - 1) : sent[i + 1] # sent[i]

\* C10 amended: a retry follows exactly one repair branch, and its payload
\* equals the failed one exactly when that branch found nothing to change: the
\* reporter branch on a payload without reporter, or the hierarchy branch on a
\* payload with neither parent nor customfield_10014.
C10_RetryDiffersIffTargetPresent ==
    \A i \in 1..(Len(sent) - 1) :
        LET b == Branch(got[i].msg)
            p == sent[i]
        IN  /\ b \in {"array", "reporter", "hierarchy"}
            /\ (sent[i + 1] = p) <=>
                  \/ b = "reporter" /\ "reporter" \notin DOMAIN p
                  \/ b = "hierarchy" /\ "parent" \notin DOMAIN p /\ CF \notin DOMAIN p

\* one retry that re-sent the same payload and one that sent a repaired one
C10_Witness ==
    /\ \E i \in 1..(Len(sent) - 1) : sent[i + 1] = sent[i]
    /\ \E i \in 1..(Len(sent) - 1) : sent[i + 1] # sent[i]

OnlyParent(p) == "parent" \in DOMAIN p /\ CF \notin DOMAIN p

OnlyAlternate(p) == CF \in DOMAIN p /\ "parent" \notin DOMAIN p

\* C11 as stated: after a hierarchy error on a payload holding exactly one of
\* parent and customfield_10014, the next payload holds the other field instead,
\* with the same target key, in both directions.
C11_HierarchyToggleBothWays ==
    \A i \in 1..(Len(sent) - 1) :
        Branch(got[i].msg) = "hierarchy" =>
            LET p == sent[i]
                q == sent[i + 1]
            IN  /\ OnlyParent(p) =>
                      /\ "parent" \notin DOMAIN q
                      /\ CF \in DOMAIN q
                      /\ q[CF] = p["parent"].key
                /\ OnlyAlternate(p) =>
                      /\ CF \notin DOMAIN q
                      /\ "parent" \in DOMAIN q
                      /\ q["parent"].key = p[CF]

\* C11 amended: after a hierarchy error, a payload holding only parent is
\* retried without parent and with customfield_10014 set to the parent's key; a
\* payload holding only customfield_10014 is retried with that field removed
\* and no parent put in its place.
C11_ParentSwitchedAlternateDropped ==
    \A i \in 1..(Len(sent) - 1) :
        Branch(got[i].msg) = "hierarchy" =>
            LET p == sent[i]
                q == sent[i + 1]
            IN  /\ OnlyParent(p) =>
                      /\ "parent" \notin DOMAIN q
                      /\ CF \in DOMAIN q
                      /\ q[CF] = p["parent"].key
                /\ OnlyAlternate(p) =>
                      /\ CF \notin DOMAIN q
                      /\ "parent" \notin DOMAIN q

\* parent was switched to the alternate field, and on the next hierarchy error
\* the alternate field was dropped
C11_Witness ==
    /\ Len(sent) >= 3
    /\ Branch(got[1].msg) = "hierarchy" /\ OnlyParent(sent[1])
    /\ Branch(got[2].msg) = "hierarchy" /\ OnlyAlternate(sent[2])
    /\ "parent" \notin DOMAIN sent[3] /\ CF \notin DOMAIN sent[3]

\* C12: for a payload holding a reporter and, as its one hierarchy field, a
\* parent link: when the first attempt fails with a reporter rejection, the
\* second with a hierarchy error and the third succeeds, exactly 3 create calls
\* were made and the third payload is the original without reporter and
\* parent, with customfield_10014 set to the parent's key and every other
\* field as it was.
C12_SelfHealingSequence ==
    ( /\ "reporter" \in DOMAIN fields0
      /\ OnlyParent(fields0)
      /\ Len(got) >= 3
      /\ Branch(got[1].msg) = "reporter"
      /\ Branch(got[2].msg) = "hierarchy"
      /\ got[3].ok ) =>
        /\ Len(sent) = 3
        /\ rpc = "done" /\ outcome = "returned"
        /\ DOMAIN sent[3] = (DOMAIN fields0 \ {"reporter", "parent"}) \cup {CF}
        /\ sent[3][CF] = fields0["parent"].key
        /\ \A f \in DOMAIN fields0 \ {"reporter", "parent"} : sent[3][f] = fields0[f]

\* the sequence happened on a payload that holds other fields as well
C12_Witness ==
    /\ "reporter" \in DOMAIN fields0 /\ OnlyParent(fields0)
    /\ "labels" \in DOMAIN fields0
    /\ Len(got) = 3
    /\ Branch(got[1].msg) = "reporter"
    /\ Branch(got[2].msg) = "hierarchy"
    /\ got[3].ok
    /\ outcome = "returned"

\* the field ids of payload p that the names of msg resolve to through the
\* name_to_id table nm
Resolved(p, msg, nm) ==
    {fid \in DOMAIN p : \E n \in msg.names : <<Lower(n), fid>> \in nm}

====
